---- MODULE Spec2Model ----
(***************************************************************************)
(* Sales-agent lead tracker: the tool handlers over three storage          *)
(* backends, run side by side on the same requests.                        *)
(*   "mem"  : the in-memory Map backend        (src/unnamed/part_000)      *)
(*   "sql"  : handlers over the SQL db module  (src/src/db.ts)             *)
(*   "json" : the flat JSON file backend       (src/dist/index.js)         *)
(* The template store is additionally modelled for the postgres db module  *)
(* ("pg", src/unnamed/part_001), whose initDatabase differs from sqlite's. *)
(***************************************************************************)
EXTENDS Integers, Sequences, FiniteSets, TLC

\* ---------------------------------------------------------------- bounds
MaxLeads == 2          \* ids handed out by generateId in one behaviour
MaxClock == 2          \* wall clock runs over 0..MaxClock (milliseconds)
TicksPerSecond == 2    \* milliseconds per second, scaled down
MaxNotes == 2          \* notes appended to one lead
MaxDependents == 2     \* meetings / follow-ups created in one behaviour
MaxListed == 3         \* leads stored when pages are cut

\* ---------------------------------------------------------------- values
Backends == {"mem", "sql", "json"}
SqlBackends == {"sql", "pg"}
TemplateBackends == {"mem", "sql", "pg"}

Null == "<null>"                 \* JS null / undefined, SQL NULL (strings)
NoNumber == <<>>                 \* JS null / undefined, SQL NULL (numbers)
Num(n) == <<n>>

Truthy(s) == s # "" /\ s # Null           \* JS truthiness of a string|null
TruthyNum(v) == v # NoNumber /\ v # Num(0) \* JS truthiness of a number|null

Has(bag, k) == k \in DOMAIN bag
\* bag[k] when the key is present and not null, else JS undefined/null
Arg(bag, k) == IF Has(bag, k) THEN bag[k] ELSE Null
ArgNum(bag, k) == IF Has(bag, k) THEN bag[k] ELSE NoNumber
ArgSeq(bag, k) == IF Has(bag, k) THEN bag[k] ELSE <<>>

\* JS values / stored column values of the list-typed fields
JsArray(items) == [kind |-> "array", items |-> items]
JsString(s) == [kind |-> "string", items |-> <<s>>]

\* JSON.stringify of an array: the serialized text of a TEXT / JSONB column
JSONstringify(items) == [kind |-> "text", items |-> items]

\* other column values: a text that is not JSON, the JSON text of a value
\* that is no array ("null", "{}", "7"), and the SQL NULL
MalformedText == [kind |-> "malformed", items |-> <<>>]
JsonTextOf(valueKind) == [kind |-> "json", items |-> <<>>, value |-> valueKind]
SqlNull == [kind |-> "NULL", items |-> <<>>]

\* a JS value that is no array and no string: null, an object, a number
JsOther(valueKind) == [kind |-> valueKind, items |-> <<>>]

\* try { return JSON.parse(json) } catch { return [] }: whatever JSON.parse
\* yields is returned, array or not; JSON.parse(null) parses "null"
parseJSON(json) ==
  IF json.kind = "text" THEN JsArray(json.items)
  ELSE IF json.kind = "json" THEN JsOther(json.value)
  ELSE IF json.kind = "NULL" THEN JsOther("null")
  ELSE JsArray(<<>>)

\* [...value, x] throws a TypeError unless value is iterable
Iterable(v) == v.kind \in {"array", "string"}

\* timestamps: new Date().toISOString() has millisecond resolution, SQL
\* CURRENT_TIMESTAMP has second resolution and another text format
NoTime == [fmt |-> "none", t |-> 0]
formatDate(now) == [fmt |-> "iso", t |-> now]
CURRENT_TIMESTAMP(now) == [fmt |-> "sql", t |-> (now \div TicksPerSecond) * TicksPerSecond]

PipelineStages == <<"new", "contacted", "qualified", "proposal", "negotiation", "closed_won", "closed_lost">>
StageSet == {PipelineStages[i] : i \in 1..Len(PipelineStages)}

VARIABLES
  clock,      \* Date.now()
  idCounter,  \* number of ids generateId has handed out
  leads,      \* [Backends -> Seq(lead row)]
  templates,  \* [TemplateBackends -> Seq(template row)]
  emailLogs,  \* [Backends -> Seq(email log row)]
  meetings,   \* [Backends -> Seq(meeting row)]
  followUps,  \* [Backends -> Seq(follow-up row)]
  call,       \* the request being answered: [op, id, args]
  pending,    \* [Clients -> the SQL handler call suspended at an await]
  result      \* [Backends -> response envelope of that request]

vars == <<clock, idCounter, leads, templates, emailLogs, meetings, followUps, call, pending, result>>

\* ---------------------------------------------------------------- helpers
RECURSIVE FindIndex(_, _, _)
\* Array.prototype.findIndex(l => l.id === id), 0 for -1
FindIndex(rows, id, i) ==
  IF i > Len(rows) THEN 0
  ELSE IF rows[i].id = id THEN i ELSE FindIndex(rows, id, i + 1)

IndexOf(rows, id) == FindIndex(rows, id, 1)
Exists(rows, id) == IndexOf(rows, id) # 0
RowOf(rows, id) == rows[IndexOf(rows, id)]

\* rows with every row whose id is id left out (DELETE ... WHERE id = ?)
Without(rows, id) == SelectSeq(rows, LAMBDA r : r.id # id)

IsPrefix(s, t) == Len(s) <= Len(t) /\ SubSeq(t, 1, Len(s)) = s

RECURSIVE SumSeq(_)
SumSeq(s) == IF s = <<>> THEN 0 ELSE Head(s) + SumSeq(Tail(s))

\* response envelopes
NotFound(msg) == [success |-> FALSE, error |-> msg]
UnknownTool == [success |-> FALSE, error |-> "Unknown tool", protocolError |-> TRUE]
Thrown(msg) == [success |-> FALSE, error |-> msg, isError |-> TRUE]
NoResult == [success |-> FALSE, error |-> "no request yet"]

\* ---------------------------------------------------------------- leads
\* a note as written by create_lead / update_lead (the bare text) and by
\* add_lead_note (`[${formatDate(new Date())}] ${args.note}`)
PlainNote(text) == [at |-> NoTime, text |-> text]
StampedNote(now, text) == [at |-> formatDate(now), text |-> text]

\* { ...args.updates } as JS values: notes is a string, tags an array
Coerce(k, v) ==
  IF k = "notes" THEN JsString(v)
  ELSE IF k = "tags" THEN JsArray(v)
  ELSE v

ToJs(bag) == [k \in DOMAIN bag |-> Coerce(k, bag[k])]

\* JS truthiness of a list-typed value (every array is truthy)
TruthyJs(v) == v.kind = "array" \/ (v.kind = "string" /\ Truthy(v.items[1]))

\* { ...lead, ...updates } restricted to the modelled lead fields
Spread(lead, updates) ==
  [k \in DOMAIN lead |-> IF k \in DOMAIN updates THEN updates[k] ELSE lead[k]]

NoteOfString(v) == PlainNote(v.items[1])

\* the lead object built by toolHandlers.create_lead (mem and sql alike)
NewLead(id, now, args) ==
  [ id |-> id,
    name |-> Arg(args, "name"),
    email |-> Arg(args, "email"),
    phone |-> Arg(args, "phone"),
    company |-> Arg(args, "company"),
    status |-> IF Truthy(Arg(args, "status")) THEN args.status ELSE "new",
    source |-> Arg(args, "source"),
    notes |-> IF Truthy(Arg(args, "notes"))
              THEN JsArray(<<PlainNote(args.notes)>>) ELSE JsArray(<<>>),
    createdAt |-> formatDate(now),
    updatedAt |-> formatDate(now),
    lastContactedAt |-> NoTime,
    estimatedValue |-> ArgNum(args, "estimatedValue"),
    priority |-> IF Truthy(Arg(args, "priority")) THEN args.priority ELSE "medium",
    tags |-> JsArray(ArgSeq(args, "tags")) ]

CreatedSummary(lead) ==
  [id |-> lead.id, name |-> lead.name, status |-> lead.status, priority |-> lead.priority]

\* ---- SQL db module ------------------------------------------------------
\* INSERT INTO leads (...): created_at / updated_at take the column default
leadsDB_create(rows, lead, now) ==
  Append(rows,
    [ id |-> lead.id,
      name |-> lead.name,
      email |-> lead.email,
      phone |-> IF Truthy(lead.phone) THEN lead.phone ELSE Null,
      company |-> lead.company,
      status |-> lead.status,
      source |-> lead.source,
      notes |-> JSONstringify(lead.notes.items),
      createdAt |-> CURRENT_TIMESTAMP(now),
      updatedAt |-> CURRENT_TIMESTAMP(now),
      lastContactedAt |-> NoTime,
      estimatedValue |-> IF TruthyNum(lead.estimatedValue) THEN lead.estimatedValue ELSE NoNumber,
      priority |-> lead.priority,
      tags |-> JSONstringify(lead.tags.items) ])

\* the row with its list columns decoded
DecodeLead(row) ==
  [row EXCEPT !.notes = parseJSON(row.notes),
              !.tags = parseJSON(row.tags)]

\* SELECT * FROM leads WHERE id = ?  (<<>> for null)
leadsDB_getById(rows, id) ==
  IF Exists(rows, id) THEN <<DecodeLead(RowOf(rows, id))>> ELSE <<>>

UpdatedRow(row, updates, now) ==
  [ id |-> row.id,
    name |-> IF Has(updates, "name") /\ Truthy(updates.name) THEN updates.name ELSE row.name,
    email |-> IF Has(updates, "email") /\ Truthy(updates.email) THEN updates.email ELSE row.email,
    phone |-> IF Has(updates, "phone") THEN updates.phone ELSE row.phone,
    company |-> IF Has(updates, "company") /\ Truthy(updates.company) THEN updates.company ELSE row.company,
    source |-> row.source,
    status |-> IF Has(updates, "status") /\ Truthy(updates.status) THEN updates.status ELSE row.status,
    priority |-> IF Has(updates, "priority") /\ Truthy(updates.priority) THEN updates.priority ELSE row.priority,
    estimatedValue |-> IF Has(updates, "estimatedValue") THEN updates.estimatedValue ELSE row.estimatedValue,
    notes |-> IF Has(updates, "notes") /\ TruthyJs(updates.notes)
              THEN JSONstringify(updates.notes.items) ELSE row.notes,
    tags |-> IF Has(updates, "tags") /\ TruthyJs(updates.tags)
             THEN JSONstringify(updates.tags.items) ELSE row.tags,
    lastContactedAt |-> IF Has(updates, "lastContactedAt") /\ updates.lastContactedAt # NoTime
                        THEN updates.lastContactedAt ELSE row.lastContactedAt,
    createdAt |-> row.createdAt,
    updatedAt |-> CURRENT_TIMESTAMP(now) ]

\* UPDATE leads SET ..., updated_at = CURRENT_TIMESTAMP WHERE id = ?
leadsDB_update(rows, id, updates, now) ==
  [i \in 1..Len(rows) |-> IF rows[i].id = id THEN UpdatedRow(rows[i], updates, now) ELSE rows[i]]

\* a DELETE that lost its WHERE clause
leadsDB_delete_all(rows, id) == <<>>

\* DELETE FROM leads WHERE id = ?
leadsDB_delete(rows, id) == Without(rows, id)

\* ---- handlers: each yields [leads |-> rows', result |-> envelope] --------
create_lead_mem(rows, id, now, args) ==
  LET lead == NewLead(id, now, args)
  IN [leads |-> Append(rows, lead),
      result |-> [success |-> TRUE, lead |-> CreatedSummary(lead)]]

create_lead_sql(rows, id, now, args) ==
  LET lead == NewLead(id, now, args)
  IN [leads |-> leadsDB_create(rows, lead, now),
      result |-> [success |-> TRUE, lead |-> CreatedSummary(lead)]]

create_lead_json(rows, id, now, args) ==
  LET lead == [NewLead(id, now, args) EXCEPT !.notes = JsArray(<<>>)]
  IN [leads |-> Append(rows, lead),
      result |-> [success |-> TRUE, lead |-> lead]]

get_lead_mem(rows, id) ==
  IF ~Exists(rows, id) THEN NotFound("Lead not found")
  ELSE [success |-> TRUE, lead |-> RowOf(rows, id)]

get_lead_sql(rows, id) ==
  LET lead == leadsDB_getById(rows, id)
  IN IF lead = <<>> THEN NotFound("Lead not found")
     ELSE [success |-> TRUE, lead |-> lead[1]]

get_lead_json(rows, id) ==
  IF ~Exists(rows, id) THEN NotFound("Not found")
  ELSE [success |-> TRUE, lead |-> RowOf(rows, id)]

update_lead_mem(rows, id, now, bag) ==
  IF ~Exists(rows, id) THEN [leads |-> rows, result |-> NotFound("Lead not found")]
  ELSE
    LET lead == RowOf(rows, id)
        updates == ToJs(bag)
        updatedLead ==
          [Spread(lead, updates) EXCEPT
             !.id = lead.id,
             !.createdAt = lead.createdAt,
             !.updatedAt = formatDate(now),
             !.notes = IF Has(updates, "notes") /\ TruthyJs(updates.notes)
                       THEN JsArray(Append(lead.notes.items, NoteOfString(updates.notes)))
                       ELSE lead.notes]
    IN [leads |-> [rows EXCEPT ![IndexOf(rows, id)] = updatedLead],
        result |-> [success |-> TRUE, lead |-> updatedLead]]

\* update_lead from the lead it read up to its `await leadsDB.update(...)`:
\* the notes written are the notes that were read plus the new one
update_lead_write(rows, lead, now, bag) ==
  LET spread == ToJs(bag)
      withNotes == Has(spread, "notes") /\ TruthyJs(spread.notes)
      updates ==
        IF withNotes
        THEN [spread EXCEPT !.notes = JsArray(Append(lead.notes.items, NoteOfString(spread.notes)))]
        ELSE spread
  IN IF withNotes /\ ~Iterable(lead.notes)
     THEN [leads |-> rows, threw |-> TRUE]
     ELSE [leads |-> leadsDB_update(rows, lead.id, updates, now), threw |-> FALSE]

\* a lead that is null in a response
NoLead == <<>>

\* update_lead's answer: { success: true, lead: await leadsDB.getById(id) }
update_lead_reread(rows, id) ==
  LET after == leadsDB_getById(rows, id)
  IN [success |-> TRUE, lead |-> IF after = <<>> THEN NoLead ELSE after[1]]

update_lead_sql(rows, id, now, bag) ==
  LET found == leadsDB_getById(rows, id)
  IN IF found = <<>> THEN [leads |-> rows, result |-> NotFound("Lead not found")]
     ELSE
       LET written == update_lead_write(rows, found[1], now, bag)
       IN IF written.threw
          THEN [leads |-> rows, result |-> Thrown("TypeError: lead.notes is not iterable")]
          ELSE [leads |-> written.leads, result |-> update_lead_reread(written.leads, id)]

update_lead_json(rows, id, now, bag) ==
  LET idx == IndexOf(rows, id)
  IN IF idx = 0 THEN [leads |-> rows, result |-> NotFound("Not found")]
     ELSE
       LET updated == [Spread(rows[idx], ToJs(bag)) EXCEPT !.updatedAt = formatDate(now)]
       IN [leads |-> [rows EXCEPT ![idx] = updated],
           result |-> [success |-> TRUE, lead |-> updated]]

add_lead_note_mem(rows, id, now, note) ==
  IF ~Exists(rows, id) THEN [leads |-> rows, result |-> NotFound("Lead not found")]
  ELSE
    LET lead == RowOf(rows, id)
        pushed == [lead EXCEPT !.notes = JsArray(Append(lead.notes.items, StampedNote(now, note))),
                               !.updatedAt = formatDate(now)]
    IN [leads |-> [rows EXCEPT ![IndexOf(rows, id)] = pushed],
        result |-> [success |-> TRUE, totalNotes |-> Len(pushed.notes.items)]]

\* add_lead_note from the lead it read on: the notes written are the notes
\* that were read plus the new one
add_lead_note_write(rows, lead, now, note) ==
  LET updatedNotes == Append(lead.notes.items, StampedNote(now, note))
  IN IF ~Iterable(lead.notes)
     THEN [leads |-> rows, result |-> Thrown("TypeError: lead.notes is not iterable")]
     ELSE [leads |-> leadsDB_update(rows, lead.id, [notes |-> JsArray(updatedNotes)], now),
           result |-> [success |-> TRUE, totalNotes |-> Len(updatedNotes)]]

add_lead_note_sql(rows, id, now, note) ==
  LET found == leadsDB_getById(rows, id)
  IN IF found = <<>> THEN [leads |-> rows, result |-> NotFound("Lead not found")]
     ELSE add_lead_note_write(rows, found[1], now, note)

delete_lead_sql(rows, id) ==
  IF leadsDB_getById(rows, id) = <<>>
  THEN [leads |-> rows, result |-> NotFound("Lead not found")]
  ELSE [leads |-> leadsDB_delete(rows, id), result |-> [success |-> TRUE]]

delete_lead_json(rows, id) ==
  [leads |-> Without(rows, id), result |-> [success |-> TRUE]]

\* ---------------------------------------------------------------- email logs
\* toolHandlers.log_email: the log is stored, then the lead is touched
log_email_mem(rows, logs, id, now, args) ==
  LET emailLog == [id |-> id, leadId |-> args.leadId, sentAt |-> formatDate(now),
                   status |-> IF Truthy(Arg(args, "status")) THEN args.status ELSE "sent"]
      idx == IndexOf(rows, args.leadId)
  IN [emailLogs |-> Append(logs, emailLog),
      leads |-> IF idx = 0 THEN rows
                ELSE [rows EXCEPT ![idx].lastContactedAt = emailLog.sentAt,
                                  ![idx].updatedAt = emailLog.sentAt],
      result |-> [success |-> TRUE, emailId |-> id]]

\* INSERT INTO email_logs (id, lead_id, template_id, subject, body, status):
\* sent_at takes the column default
emailsDB_create(logs, email, now) ==
  Append(logs, [id |-> email.id, leadId |-> email.leadId,
                sentAt |-> CURRENT_TIMESTAMP(now), status |-> email.status])

log_email_sql(rows, logs, id, now, args) ==
  LET emailLog == [id |-> id, leadId |-> args.leadId, sentAt |-> formatDate(now),
                   status |-> IF Truthy(Arg(args, "status")) THEN args.status ELSE "sent"]
  IN [emailLogs |-> emailsDB_create(logs, emailLog, now),
      leads |-> IF leadsDB_getById(rows, args.leadId) = <<>> THEN rows
                ELSE leadsDB_update(rows, args.leadId,
                                    [lastContactedAt |-> emailLog.sentAt,
                                     updatedAt |-> emailLog.sentAt], now),
      result |-> [success |-> TRUE, emailId |-> id]]

\* ---------------------------------------------------------------- meetings, follow-ups
NewMeeting(id, args) ==
  [id |-> id, leadId |-> args.leadId, title |-> args.title,
   scheduledAt |-> args.scheduledAt, status |-> "scheduled"]

\* a spawned follow-up of another type
MeetingFollowUp_call(id, args) ==
  [id |-> id, leadId |-> args.leadId, type |-> "call",
   scheduledAt |-> args.scheduledAt, description |-> <<"Meeting: ", args.title>>,
   completed |-> FALSE, completedAt |-> NoTime]

\* the follow-up spawned by schedule_meeting({createFollowUp: true})
MeetingFollowUp(id, args) ==
  [id |-> id, leadId |-> args.leadId, type |-> "task",
   scheduledAt |-> args.scheduledAt, description |-> <<"Meeting: ", args.title>>,
   completed |-> FALSE, completedAt |-> NoTime]

\* if (args.createFollowUp): an absent key is undefined, hence falsy
WantsFollowUp(args) == Has(args, "createFollowUp") /\ args.createFollowUp

\* schedule_meeting draws id for the meeting and id + 1 for the follow-up
schedule_meeting_mem(rows, mtgs, fups, id, now, args) ==
  LET meeting == NewMeeting(id, args)
      idx == IndexOf(rows, args.leadId)
  IN [meetings |-> Append(mtgs, meeting),
      followUps |-> IF WantsFollowUp(args)
                    THEN Append(fups, MeetingFollowUp(id + 1, args)) ELSE fups,
      leads |-> IF idx = 0 THEN rows
                ELSE [rows EXCEPT ![idx].lastContactedAt = formatDate(now)],
      result |-> [success |-> TRUE, meeting |-> meeting]]

schedule_meeting_sql(rows, mtgs, fups, id, now, args) ==
  LET meeting == NewMeeting(id, args)
  IN [meetings |-> Append(mtgs, meeting),
      followUps |-> IF WantsFollowUp(args)
                    THEN Append(fups, MeetingFollowUp(id + 1, args)) ELSE fups,
      leads |-> IF leadsDB_getById(rows, args.leadId) = <<>> THEN rows
                ELSE leadsDB_update(rows, args.leadId,
                                    [lastContactedAt |-> formatDate(now)], now),
      result |-> [success |-> TRUE, meeting |-> meeting]]

\* meetingsDB.update: with no SET clause the statement is malformed and
\* run() rejects; otherwise every row with the id is updated (possibly none)
MeetingSets(updates) ==
  {k \in {"title", "status"} : Has(updates, k) /\ Truthy(updates[k])}
    \cup {k \in {"scheduledAt"} : Has(updates, k) /\ updates.scheduledAt # NoTime}

meetingsDB_update(mtgs, id, updates) ==
  [i \in 1..Len(mtgs) |->
     IF mtgs[i].id = id
     THEN [k \in DOMAIN mtgs[i] |-> IF k \in MeetingSets(updates) THEN updates[k] ELSE mtgs[i][k]]
     ELSE mtgs[i]]

update_meeting_sql(mtgs, id, updates) ==
  IF MeetingSets(updates) = {}
  THEN [meetings |-> mtgs, result |-> Thrown("SQLITE_ERROR: near WHERE: syntax error")]
  ELSE [meetings |-> meetingsDB_update(mtgs, id, updates), result |-> [success |-> TRUE]]

delete_meeting_sql(mtgs, id) ==
  [meetings |-> Without(mtgs, id), result |-> [success |-> TRUE]]

\* followUpsDB.update: the SET clauses a bag produces
FollowUpSets(updates) ==
  {k \in {"type"} : Has(updates, k) /\ Truthy(updates.type)}
    \cup {k \in {"description"} : Has(updates, k) /\ Truthy(updates.description)}
    \cup {k \in {"scheduledAt"} : Has(updates, k) /\ updates.scheduledAt # NoTime}
    \cup {k \in {"completed"} : Has(updates, k)}
    \cup {k \in {"completedAt"} : Has(updates, k) /\ updates.completedAt # NoTime}

followUpsDB_update(fups, id, updates) ==
  LET sets == FollowUpSets(updates)
  IN [i \in 1..Len(fups) |->
        IF fups[i].id = id
        THEN [fups[i] EXCEPT
                !.type = IF "type" \in sets THEN updates.type ELSE @,
                !.description = IF "description" \in sets THEN <<updates.description>> ELSE @,
                !.scheduledAt = IF "scheduledAt" \in sets THEN updates.scheduledAt ELSE @,
                !.completed = IF "completed" \in sets THEN updates.completed ELSE @,
                !.completedAt = IF "completedAt" \in sets THEN updates.completedAt ELSE @]
        ELSE fups[i]]

update_follow_up_sql(fups, id, updates) ==
  IF FollowUpSets(updates) = {}
  THEN [followUps |-> fups, result |-> Thrown("SQLITE_ERROR: near WHERE: syntax error")]
  ELSE [followUps |-> followUpsDB_update(fups, id, updates), result |-> [success |-> TRUE]]

delete_follow_up_sql(fups, id) ==
  [followUps |-> Without(fups, id), result |-> [success |-> TRUE]]

complete_follow_up_sql(fups, id, now) ==
  [followUps |-> followUpsDB_update(fups, id, [completed |-> TRUE, completedAt |-> formatDate(now)]),
   result |-> [success |-> TRUE]]

complete_follow_up_mem(fups, id, now) ==
  IF ~Exists(fups, id)
  THEN [followUps |-> fups, result |-> NotFound("Follow-up not found")]
  ELSE [followUps |-> [fups EXCEPT ![IndexOf(fups, id)].completed = TRUE,
                                   ![IndexOf(fups, id)].completedAt = formatDate(now)],
        result |-> [success |-> TRUE]]

\* ---------------------------------------------------------------- storage failures
\* the Error a rejected db.run / db.get / db.all carries
StorageError == "SQLITE_IOERR: disk I/O error"

\* how a handler call ends: with the envelope it returns or the Error it throws
Returned(envelope) == [threw |-> FALSE, value |-> envelope]
Threw(message) == [threw |-> TRUE, message |-> message]

\* a log_email that takes its insert back when a later storage call rejects
log_email_steps_rollback(rows, logs, id, now, args, failAt) ==
  LET emailLog == [id |-> id, leadId |-> args.leadId, sentAt |-> formatDate(now),
                   status |-> IF Truthy(Arg(args, "status")) THEN args.status ELSE "sent"]
      logged == emailsDB_create(logs, emailLog, now)
      done == log_email_sql(rows, logs, id, now, args)
  IN IF failAt = 1
     THEN [emailLogs |-> logs, leads |-> rows, outcome |-> Threw(StorageError)]
     ELSE IF failAt = 2 \/ (failAt = 3 /\ leadsDB_getById(rows, args.leadId) # <<>>)
     THEN [emailLogs |-> logs, leads |-> rows, outcome |-> Threw(StorageError)]
     ELSE [emailLogs |-> done.emailLogs, leads |-> done.leads, outcome |-> Returned(done.result)]

\* log_email whose failAt-th storage call rejects (0: none does):
\* 1 emailsDB.create, 2 leadsDB.getById, 3 leadsDB.update
log_email_steps(rows, logs, id, now, args, failAt) ==
  LET emailLog == [id |-> id, leadId |-> args.leadId, sentAt |-> formatDate(now),
                   status |-> IF Truthy(Arg(args, "status")) THEN args.status ELSE "sent"]
      logged == emailsDB_create(logs, emailLog, now)
      done == log_email_sql(rows, logs, id, now, args)
  IN IF failAt = 1
     THEN [emailLogs |-> logs, leads |-> rows, outcome |-> Threw(StorageError)]
     ELSE IF failAt = 2 \/ (failAt = 3 /\ leadsDB_getById(rows, args.leadId) # <<>>)
     THEN [emailLogs |-> logged, leads |-> rows, outcome |-> Threw(StorageError)]
     ELSE [emailLogs |-> done.emailLogs, leads |-> done.leads, outcome |-> Returned(done.result)]

\* schedule_meeting whose failAt-th storage call rejects (0: none does):
\* 1 meetingsDB.create, 2 followUpsDB.create, 3 leadsDB.getById, 4 leadsDB.update
schedule_meeting_steps(rows, mtgs, fups, id, now, args, failAt) ==
  LET meeting == NewMeeting(id, args)
      done == schedule_meeting_sql(rows, mtgs, fups, id, now, args)
  IN IF failAt = 1
     THEN [meetings |-> mtgs, followUps |-> fups, leads |-> rows,
           outcome |-> Threw(StorageError)]
     ELSE IF failAt = 2 /\ WantsFollowUp(args)
     THEN [meetings |-> Append(mtgs, meeting), followUps |-> fups, leads |-> rows,
           outcome |-> Threw(StorageError)]
     ELSE IF failAt = 3 \/ (failAt = 4 /\ leadsDB_getById(rows, args.leadId) # <<>>)
     THEN [meetings |-> done.meetings, followUps |-> done.followUps, leads |-> rows,
           outcome |-> Threw(StorageError)]
     ELSE [meetings |-> done.meetings, followUps |-> done.followUps, leads |-> done.leads,
           outcome |-> Returned(done.result)]

\* error instanceof Error ? error.message : "Unknown error"
FailureEnvelope(outcome) == [success |-> FALSE, error |-> outcome.message]

\* the CallTool request handler: try { await handler(args) } catch
CallToolReply(outcome) ==
  IF outcome.threw THEN [door |-> "tool", isError |-> TRUE, content |-> FailureEnvelope(outcome)]
  ELSE [door |-> "tool", isError |-> FALSE, content |-> outcome.value]

\* a REST front door that answers 200 whatever the handler did
handleApiRequest_ok(outcome) ==
  IF outcome.threw THEN [door |-> "rest", status |-> 200, content |-> FailureEnvelope(outcome)]
  ELSE [door |-> "rest", status |-> 200, content |-> outcome.value]

\* handleApiRequest: 200 with the result, 500 with the failure envelope
handleApiRequest(outcome) ==
  IF outcome.threw THEN [door |-> "rest", status |-> 500, content |-> FailureEnvelope(outcome)]
  ELSE [door |-> "rest", status |-> 200, content |-> outcome.value]

FrontDoor(door, outcome) ==
  IF door = "rest" THEN handleApiRequest(outcome) ELSE CallToolReply(outcome)

\* ---------------------------------------------------------------- pipeline
ValueOf(lead) == IF lead.estimatedValue = NoNumber THEN 0 ELSE lead.estimatedValue[1]

CountWhere(rows, P(_)) == Len(SelectSeq(rows, P))
SumWhere(rows, P(_)) ==
  LET sel == SelectSeq(rows, P)
  IN SumSeq([i \in 1..Len(sel) |-> ValueOf(sel[i])])

\* (x * 100).toFixed(1) for x = won / (won + lost), in tenths of a percent
toFixed1(won, closed) == (2000 * won + closed) \div (2 * closed)

\* the text of winRate: "<n.n>%", "0%" or "NaN%"
Percent(tenths) == [text |-> "fixed", tenths |-> tenths, suffix |-> "%"]
ZeroPercent == [text |-> "0", tenths |-> 0, suffix |-> "%"]
NaNPercent == [text |-> "NaN", tenths |-> 0, suffix |-> "%"]

\* analyticsDB.getPipeline: GROUP BY status, stages outside the table skipped
analyticsDB_getPipeline(rows) ==
  [s \in StageSet |->
     [count |-> CountWhere(rows, LAMBDA r : r.status = s),
      value |-> SumWhere(rows, LAMBDA r : r.status = s)]]

analyticsDB_getStats(rows) ==
  LET wonDeals == CountWhere(rows, LAMBDA r : r.status = "closed_won")
      lostDeals == CountWhere(rows, LAMBDA r : r.status = "closed_lost")
  IN [totalLeads |-> Len(rows),
      activeLeads |-> CountWhere(rows, LAMBDA r : r.status \notin {"closed_won", "closed_lost"}),
      totalPipelineValue |-> SumWhere(rows, LAMBDA r : TRUE),
      winRate |-> IF wonDeals + lostDeals > 0
                  THEN Percent(toFixed1(wonDeals, wonDeals + lostDeals))
                  ELSE ZeroPercent]

get_pipeline_sql(rows) ==
  [success |-> TRUE,
   summary |-> analyticsDB_getStats(rows),
   pipeline |-> analyticsDB_getPipeline(rows)]

\* in-memory: pipeline[lead.status] is undefined for a status outside the
\* seven stages and stage.count++ throws; 0 / 0 is NaN
get_pipeline_mem(rows) ==
  IF \E i \in 1..Len(rows) : rows[i].status \notin StageSet
  THEN Thrown("TypeError: Cannot read properties of undefined")
  ELSE
    LET pipeline == [s \in StageSet |->
                       [count |-> CountWhere(rows, LAMBDA r : r.status = s),
                        value |-> SumWhere(rows, LAMBDA r : r.status = s)]]
        wonDeals == pipeline["closed_won"].count
        lostDeals == pipeline["closed_lost"].count
    IN [success |-> TRUE,
        summary |->
          [totalLeads |-> Len(rows),
           activeLeads |-> CountWhere(rows, LAMBDA r : r.status \notin {"closed_won", "closed_lost"}),
           totalPipelineValue |-> SumSeq([i \in 1..Len(PipelineStages) |-> pipeline[PipelineStages[i]].value]),
           winRate |-> IF Len(rows) > 0
                       THEN (IF wonDeals + lostDeals = 0 THEN NaNPercent
                             ELSE Percent(toFixed1(wonDeals, wonDeals + lostDeals)))
                       ELSE ZeroPercent],
        pipeline |-> pipeline]

\* flat JSON: no summary block, only { pipeline, total }
get_pipeline_json(rows) ==
  [success |-> TRUE,
   pipeline |-> [s \in StageSet |->
                   [count |-> CountWhere(rows, LAMBDA r : r.status = s),
                    value |-> SumWhere(rows, LAMBDA r : r.status = s)]],
   total |-> Len(rows)]

\* ---------------------------------------------------------------- reports
\* one day on the scaled-down clock, and the default window of 30 days
TicksPerDay == TicksPerSecond
ThirtyDays == 30 * TicksPerDay

\* new Date(text).getTime(), for a process whose time zone is UTC
DateOf(ts) == ts.t

\* text.split("T")[0]: the date part of an ISO text; a text without a "T"
\* ("YYYY-MM-DD HH:MM:SS") comes back whole
SplitT(ts) ==
  IF ts.fmt = "iso" THEN [kind |-> "date", day |-> ts.t \div TicksPerDay]
  ELSE [kind |-> "datetime", t |-> ts.t]

\* args.fromDate ? new Date(args.fromDate) : new Date(Date.now() - 30 days)
WindowOf(args, now) ==
  [from |-> IF Has(args, "fromDate") THEN DateOf(args.fromDate) ELSE now - ThirtyDays,
   to |-> IF Has(args, "toDate") THEN DateOf(args.toDate) ELSE now]

InWindow(ts, window) == DateOf(ts) >= window.from /\ DateOf(ts) <= window.to

\* rows.forEach(r => { byDay[day] = (byDay[day] || 0) + 1 })
ByDay(stamps) ==
  [k \in {SplitT(stamps[i]) : i \in 1..Len(stamps)} |->
     Cardinality({i \in 1..Len(stamps) : SplitT(stamps[i]) = k})]

\* the blocks of the report both handlers build alike
ReportOf(rows, logs, mtgs, window) ==
  LET inLeads == SelectSeq(rows, LAMBDA l : InWindow(l.createdAt, window))
      emails == SelectSeq(logs, LAMBDA e : InWindow(e.sentAt, window))
      inMeetings == SelectSeq(mtgs, LAMBDA m : InWindow(m.scheduledAt, window))
      wonDeals == SelectSeq(inLeads, LAMBDA l : l.status = "closed_won")
      lostDeals == SelectSeq(inLeads, LAMBDA l : l.status = "closed_lost")
      totalRevenue == SumSeq([i \in 1..Len(wonDeals) |-> ValueOf(wonDeals[i])])
  IN [success |-> TRUE,
      leads |-> [s \in StageSet |-> Len(SelectSeq(inLeads, LAMBDA l : l.status = s))],
      activity |-> [emailsSent |-> Len(emails),
                    meetingsScheduled |-> Len(inMeetings),
                    emailsByDay |-> ByDay([i \in 1..Len(emails) |-> emails[i].sentAt])],
      leadsByDay |-> ByDay([i \in 1..Len(inLeads) |-> inLeads[i].createdAt]),
      revenue |-> [total |-> totalRevenue,
                   averageDealSize |-> IF Len(wonDeals) > 0
                                       THEN [sum |-> totalRevenue, deals |-> Len(wonDeals)]
                                       ELSE [sum |-> 0, deals |-> 1],
                   winRate |-> IF Len(wonDeals) + Len(lostDeals) > 0
                               THEN [text |-> "fixed",
                                     tenths |-> toFixed1(Len(wonDeals), Len(wonDeals) + Len(lostDeals))]
                               ELSE [text |-> "0", tenths |-> 0]]]

\* db.ts: activity carries emailsByDay and leadsByDay
get_sales_report_sql(rows, logs, mtgs, now, args) ==
  LET r == ReportOf(rows, logs, mtgs, WindowOf(args, now))
  IN [success |-> TRUE, leads |-> r.leads, revenue |-> r.revenue,
      activity |-> [emailsSent |-> r.activity.emailsSent,
                    meetingsScheduled |-> r.activity.meetingsScheduled,
                    emailsByDay |-> r.activity.emailsByDay,
                    leadsByDay |-> r.leadsByDay]]

\* in-memory: activity carries emailsByDay only
get_sales_report_mem(rows, logs, mtgs, now, args) ==
  LET r == ReportOf(rows, logs, mtgs, WindowOf(args, now))
  IN [success |-> TRUE, leads |-> r.leads, revenue |-> r.revenue, activity |-> r.activity]

\* ---------------------------------------------------------------- templates
DefaultId(n) == <<"template", n>>
GeneratedId(n) == <<"generated", n>>

\* template text as the regex /\{\{(\w+)\}\}/g cuts it: literal stretches and
\* {{identifier}} placeholders
Text(s) == [kind |-> "text", s |-> s]
Placeholder(key) == [kind |-> "placeholder", s |-> key]

defaultTemplates ==
  << [id |-> DefaultId(1), name |-> "Introduction Email",
      subject |-> <<Text("Introduction - "), Placeholder("company"), Text(" & "),
                    Placeholder("senderCompany")>>,
      body |-> <<Text("Hi "), Placeholder("name"), Text(", My name is "),
                 Placeholder("senderName"), Text(" from "), Placeholder("senderCompany"),
                 Text(". I came across "), Placeholder("company"),
                 Text(" and was impressed by "), Placeholder("achievement"),
                 Text(". help "), Placeholder("company"), Text(" achieve "),
                 Placeholder("goal"), Text("? Best regards, "), Placeholder("senderName"),
                 Text(" "), Placeholder("senderTitle"), Text(" "),
                 Placeholder("senderCompany")>>],
     [id |-> DefaultId(2), name |-> "Follow-Up After No Response",
      subject |-> <<Text("Re: "), Placeholder("previousSubject")>>,
      body |-> <<Text("Hi "), Placeholder("name"), Text(", my previous email about "),
                 Placeholder("topic"), Text(". "), Placeholder("valueProposition"),
                 Text(" Best, "), Placeholder("senderName")>>],
     [id |-> DefaultId(3), name |-> "Meeting Proposal",
      subject |-> <<Text("Proposal Discussion - "), Placeholder("company")>>,
      body |-> <<Text("Hi "), Placeholder("name"), Text(", speak with me "),
                 Placeholder("meetingDate"), Text(". a tailored proposal for "),
                 Placeholder("company"), Text(" that addresses: "), Placeholder("keyPoints"),
                 Text(" The estimated value for "), Placeholder("company"),
                 Text(" would be approximately "), Placeholder("estimatedValue"),
                 Text(". Best regards, "), Placeholder("senderName")>>] >>

\* INSERT INTO email_templates: id is the PRIMARY KEY, so a row whose id is
\* already stored is rejected ([ok |-> FALSE])
InsertTemplate(rows, template) ==
  IF Exists(rows, template.id) THEN [ok |-> FALSE, rows |-> rows]
  ELSE [ok |-> TRUE, rows |-> Append(rows, template)]

RECURSIVE InsertAll(_, _)
\* for (const template of defaultTemplates) await run(INSERT ...): stops at
\* the first insert that rejects
InsertAll(rows, todo) ==
  IF todo = <<>> THEN rows
  ELSE LET r == InsertTemplate(rows, Head(todo))
       IN IF r.ok THEN InsertAll(r.rows, Tail(todo)) ELSE r.rows

\* seeding that leaves out the "if none exist" test
initDatabase_unguarded(rows) == InsertAll(rows, defaultTemplates)

\* sqlite initDatabase, seeding part: seed only when the table is empty
initDatabase_sqlite(rows) ==
  IF Len(rows) = 0 THEN InsertAll(rows, defaultTemplates) ELSE rows

\* postgres initDatabase, seeding part
initDatabase_pg(rows) ==
  IF Len(rows) = 0 THEN InsertAll(rows, defaultTemplates) ELSE rows

RECURSIVE InsertUntil(_, _, _)
\* the seeding loop over a storage whose failAt-th INSERT rejects (0: none
\* does): the rows inserted before stay, the loop ends with the rejection
InsertUntil(rows, todo, failAt) ==
  IF todo = <<>> THEN [rows |-> rows, threw |-> FALSE]
  ELSE IF failAt = 1 \/ ~InsertTemplate(rows, Head(todo)).ok THEN [rows |-> rows, threw |-> TRUE]
  ELSE InsertUntil(InsertTemplate(rows, Head(todo)).rows, Tail(todo),
                   IF failAt = 0 THEN 0 ELSE failAt - 1)

\* sqlite initDatabase, seeding part: one autocommitted INSERT per template
initDatabase_sqlite_steps(rows, failAt) ==
  IF Len(rows) = 0 THEN InsertUntil(rows, defaultTemplates, failAt)
  ELSE [rows |-> rows, threw |-> FALSE]

\* postgres initDatabase, seeding part: it runs after COMMIT, through the
\* pool; the ROLLBACK of the catch block finds no transaction to undo
initDatabase_pg_steps(rows, failAt) ==
  IF Len(rows) = 0 THEN InsertUntil(rows, defaultTemplates, failAt)
  ELSE [rows |-> rows, threw |-> FALSE]

RECURSIVE MapSetAll(_, _)
\* defaultTemplates.forEach(t => storage.emailTemplates.set(t.id, t))
MapSetAll(rows, todo) ==
  IF todo = <<>> THEN rows
  ELSE LET t == Head(todo)
           idx == IndexOf(rows, t.id)
       IN MapSetAll(IF idx = 0 THEN Append(rows, t) ELSE [rows EXCEPT ![idx] = t], Tail(todo))

\* module load of the in-memory backend: a fresh Map, then the seeding
initStorage_mem == MapSetAll(<<>>, defaultTemplates)

create_email_template(rows, id, args) ==
  [templates |-> Append(rows, [id |-> GeneratedId(id), name |-> args.name,
                               subject |-> args.subject, body |-> args.body]),
   result |-> [success |-> TRUE, templateId |-> GeneratedId(id)]]

\* templatesDB.update: one SET entry per truthy field of the bag
TemplateSets(updates) ==
  {k \in {"name"} : Has(updates, k) /\ Truthy(updates.name)}
    \cup {k \in {"subject", "body"} : Has(updates, k) /\ updates[k] # <<>>}

templatesDB_update(rows, id, updates) ==
  [i \in 1..Len(rows) |->
     IF rows[i].id = id
     THEN [k \in DOMAIN rows[i] |->
             IF k \in TemplateSets(updates) THEN updates[k] ELSE rows[i][k]]
     ELSE rows[i]]

\* update_email_template: with no SET entry the statement reads
\* "UPDATE email_templates SET  WHERE id = ?" and run() rejects
update_email_template_sql(rows, id, updates) ==
  IF ~Exists(rows, id) THEN [templates |-> rows, result |-> NotFound("Template not found")]
  ELSE IF TemplateSets(updates) = {}
  THEN [templates |-> rows, result |-> Thrown("SQLITE_ERROR: near WHERE: syntax error")]
  ELSE LET updated == templatesDB_update(rows, id, updates)
       IN [templates |-> updated,
           result |-> [success |-> TRUE, template |-> RowOf(updated, id)]]

delete_email_template_sql(rows, id) ==
  IF ~Exists(rows, id) THEN [templates |-> rows, result |-> NotFound("Template not found")]
  ELSE [templates |-> Without(rows, id), result |-> [success |-> TRUE]]

\* ---------------------------------------------------------------- composing
\* template.replace(/\{\{(\w+)\}\}/g, (match, key) => variables[key] || match)
interpolateTemplate(template, variables) ==
  [i \in 1..Len(template) |->
     IF /\ template[i].kind = "placeholder"
        /\ template[i].s \in DOMAIN variables
        /\ Truthy(variables[template[i].s])
     THEN Text(variables[template[i].s])
     ELSE template[i]]

\* args.variables || {}
VariablesOf(args) == IF Has(args, "variables") THEN args.variables ELSE <<>>

Composed(tpl, lead, args) ==
  [success |-> TRUE,
   email |-> [subject |-> IF tpl = <<>> THEN ArgSeq(args, "subject")
                          ELSE interpolateTemplate(tpl[1].subject, VariablesOf(args)),
              body |-> IF tpl = <<>> THEN ArgSeq(args, "body")
                       ELSE interpolateTemplate(tpl[1].body, VariablesOf(args)),
              recipient |-> IF lead = <<>> THEN <<>> ELSE <<[name |-> lead[1].name]>>]]

\* a compose that also files the mail in the log
compose_email_logging(tpls, rows, logs, args) ==
  LET lead == IF Has(args, "leadId") /\ Exists(rows, args.leadId)
              THEN <<RowOf(rows, args.leadId)>> ELSE <<>>
  IN [leads |-> rows,
      emailLogs |-> Append(logs, [id |-> 0, leadId |-> 0, sentAt |-> NoTime, status |-> "sent"]),
      result |-> IF ~Has(args, "templateId") THEN Composed(<<>>, lead, args)
                 ELSE IF ~Exists(tpls, args.templateId) THEN NotFound("Template not found")
                 ELSE Composed(<<RowOf(tpls, args.templateId)>>, lead, args)]

\* toolHandlers.compose_email, over either store: reads the template and the
\* lead, writes nothing
compose_email(tpls, rows, logs, args) ==
  LET lead == IF Has(args, "leadId") /\ Exists(rows, args.leadId)
              THEN <<RowOf(rows, args.leadId)>> ELSE <<>>
  IN [leads |-> rows,
      emailLogs |-> logs,
      result |-> IF ~Has(args, "templateId") THEN Composed(<<>>, lead, args)
                 ELSE IF ~Exists(tpls, args.templateId) THEN NotFound("Template not found")
                 ELSE Composed(<<RowOf(tpls, args.templateId)>>, lead, args)]

\* ---------------------------------------------------------------- text
\* the characters of the strings that are searched
Chars(s) ==
  CASE s = "Ada" -> <<"A", "d", "a">>
    [] s = "Bo" -> <<"B", "o">>
    [] s = "Acme" -> <<"A", "c", "m", "e">>
    [] s = "Bolt" -> <<"B", "o", "l", "t">>
    [] s = "a@x" -> <<"a", "@", "x">>
    [] s = "b@y" -> <<"b", "@", "y">>
    [] s = "vip" -> <<"v", "i", "p">>
    [] s = "eu" -> <<"e", "u">>
    [] s = "ad" -> <<"a", "d">>
    [] s = "VIP" -> <<"V", "I", "P">>
    [] s = "_" -> <<"_">>
    [] s = "" -> <<>>
    [] OTHER -> <<s>>

LowerOf == [A |-> "a", B |-> "b", V |-> "v", I |-> "i", P |-> "p"]

\* String.prototype.toLowerCase / SQL LOWER()
toLowerCase(chars) ==
  [i \in 1..Len(chars) |-> IF chars[i] \in DOMAIN LowerOf THEN LowerOf[chars[i]] ELSE chars[i]]

\* String.prototype.includes
includes(text, query) ==
  \E i \in 0..(Len(text) - Len(query)) : SubSeq(text, i + 1, i + Len(query)) = query

RECURSIVE LIKE(_, _)
\* text LIKE pattern: % matches any run of characters, _ any one character
LIKE(text, pattern) ==
  IF pattern = <<>> THEN text = <<>>
  ELSE IF Head(pattern) = "%"
       THEN LIKE(text, Tail(pattern)) \/ (text # <<>> /\ LIKE(Tail(text), pattern))
  ELSE /\ text # <<>>
       /\ (Head(pattern) = "_" \/ Head(pattern) = Head(text))
       /\ LIKE(Tail(text), Tail(pattern))

RECURSIVE JsonItems(_)
JsonItems(items) ==
  IF items = <<>> THEN <<>>
  ELSE <<"\"">> \o Chars(Head(items)) \o <<"\"">>
         \o (IF Tail(items) = <<>> THEN <<>> ELSE <<",">>) \o JsonItems(Tail(items))

\* the text JSON.stringify(tags) stores in the tags column
JsonText(items) == <<"[">> \o JsonItems(items) \o <<"]">>

\* ---------------------------------------------------------------- listing
\* the sequences that hold exactly the rows of rows, in any order
Arrangements(rows) ==
  {[i \in 1..Len(rows) |-> rows[p[i]]] : p \in Permutations(1..Len(rows))}

\* CASE priority WHEN "high" THEN 1 WHEN "medium" THEN 2 ELSE 3 END
PriorityCase(priority) ==
  IF priority = "high" THEN 1 ELSE IF priority = "medium" THEN 2 ELSE 3

\* ORDER BY CASE priority ... END, created_at DESC: rows with equal keys come
\* in an order SQL leaves open
ListOrder(a, b) ==
  \/ PriorityCase(a.priority) < PriorityCase(b.priority)
  \/ PriorityCase(a.priority) = PriorityCase(b.priority) /\ a.createdAt.t >= b.createdAt.t

\* leadsDB.list: the possible result sets of the query
leadsDB_list(rows, filters) ==
  LET hits == SelectSeq(rows, LAMBDA r :
                /\ Truthy(filters.status) => r.status = filters.status
                /\ Truthy(filters.priority) => r.priority = filters.priority
                /\ Truthy(filters.source) => r.source = filters.source)
  IN {[i \in 1..Len(a) |-> DecodeLead(a[i])] :
        a \in {x \in Arrangements(hits) :
                 \A i \in 1..(Len(x) - 1) : ListOrder(x[i], x[i + 1])}}

\* const priorityOrder = { high: 0, medium: 1, low: 2 }; <<>> is undefined
priorityOrder(priority) ==
  IF priority = "high" THEN Num(0)
  ELSE IF priority = "medium" THEN Num(1)
  ELSE IF priority = "low" THEN Num(2) ELSE NoNumber

\* a comparator that forgot the priority
compareLeads_byDate(a, b) == b.createdAt.t - a.createdAt.t

\* the comparator of the in-memory sort; a NaN result counts as 0
compareLeads(a, b) ==
  LET pa == priorityOrder(a.priority)
      pb == priorityOrder(b.priority)
  IN IF pa = NoNumber \/ pb = NoNumber THEN 0
     ELSE IF pa[1] # pb[1] THEN pa[1] - pb[1]
     ELSE b.createdAt.t - a.createdAt.t

RECURSIVE InsertLead(_, _)
InsertLead(sorted, x) ==
  IF sorted = <<>> THEN <<x>>
  ELSE IF compareLeads(x, Head(sorted)) < 0 THEN <<x>> \o sorted
  ELSE <<Head(sorted)>> \o InsertLead(Tail(sorted), x)

RECURSIVE SortLeads(_)
\* Array.prototype.sort with compareLeads (a stable sort)
SortLeads(rows) ==
  IF rows = <<>> THEN <<>>
  ELSE InsertLead(SortLeads(SubSeq(rows, 1, Len(rows) - 1)), rows[Len(rows)])

\* limit and page as JS values: a number from a tool call, a string from a
\* REST query parameter
JsNumber(n) == [kind |-> "number", n |-> n]
JsNumeric(n) == [kind |-> "string", n |-> n]
TruthyValue(v) == v.kind = "string" \/ v.n # 0

DefaultLimit == 50

RECURSIVE Digits(_)
Digits(n) == IF n < 10 THEN 1 ELSE 1 + Digits(n \div 10)

RECURSIVE Pow10(_)
Pow10(k) == IF k = 0 THEN 1 ELSE 10 * Pow10(k - 1)

\* start + limit: an addition of numbers, a concatenation of the decimal
\* texts when limit is a string (start >= 0)
Plus(start, limit) ==
  IF limit.kind = "number" THEN start + limit.n
  ELSE start * Pow10(Digits(limit.n)) + limit.n

\* Array.prototype.slice(start, end) for start >= 0
slice(rows, start, end) ==
  SubSeq(rows, start + 1, IF end < Len(rows) THEN end ELSE Len(rows))

Paginated(all, args) ==
  LET limit == IF Has(args, "limit") /\ TruthyValue(args.limit) THEN args.limit
               ELSE JsNumber(DefaultLimit)
      page == IF Has(args, "page") /\ TruthyValue(args.page) THEN args.page ELSE JsNumber(1)
      start == (page.n - 1) * limit.n
  IN [success |-> TRUE, total |-> Len(all), page |-> page, limit |-> limit,
      leads |-> slice(all, start, Plus(start, limit))]

\* toolHandlers.list_leads over the SQL db module: the possible responses
list_leads_sql(rows, args) ==
  {Paginated(all, args) :
     all \in leadsDB_list(rows, [status |-> Arg(args, "status"),
                                 priority |-> Arg(args, "priority"),
                                 source |-> Arg(args, "source")])}

ListedLead(l) ==
  [id |-> l.id, name |-> l.name, company |-> l.company, status |-> l.status,
   priority |-> l.priority, estimatedValue |-> l.estimatedValue,
   lastContactedAt |-> l.lastContactedAt]

\* toolHandlers.list_leads of the in-memory backend
list_leads_mem(rows, args) ==
  LET hits == SelectSeq(rows, LAMBDA l :
                /\ Truthy(Arg(args, "status")) => l.status = args.status
                /\ Truthy(Arg(args, "priority")) => l.priority = args.priority
                /\ Truthy(Arg(args, "source")) => l.source = args.source
                /\ Truthy(Arg(args, "tag")) =>
                     \E i \in 1..Len(l.tags.items) : l.tags.items[i] = args.tag)
      page == Paginated(SortLeads(hits), args)
  IN [page EXCEPT !.leads = [i \in 1..Len(page.leads) |-> ListedLead(page.leads[i])]]

\* handlers.list_leads of the flat JSON backend: the whole file, as stored
list_leads_json(rows, args) == [success |-> TRUE, leads |-> rows]

\* ---------------------------------------------------------------- searching
\* leadsDB.search: the possible result sets of the query
leadsDB_search(rows, query) ==
  LET searchTerm == <<"%">> \o toLowerCase(Chars(query)) \o <<"%">>
      Matches(col) == col # Null /\ LIKE(toLowerCase(Chars(col)), searchTerm)
      hits == SelectSeq(rows, LAMBDA r :
                \/ Matches(r.name)
                \/ Matches(r.company)
                \/ Matches(r.email)
                \/ LIKE(toLowerCase(JsonText(r.tags.items)), searchTerm))
  IN {[i \in 1..Len(a) |-> DecodeLead(a[i])] :
        a \in {x \in Arrangements(hits) :
                 \A i \in 1..(Len(x) - 1) : x[i].createdAt.t >= x[i + 1].createdAt.t}}

search_leads_sql(rows, query) ==
  {[success |-> TRUE, count |-> Len(found), leads |-> found] :
     found \in leadsDB_search(rows, query)}

FoundLead(l) ==
  [id |-> l.id, name |-> l.name, company |-> l.company, email |-> l.email,
   status |-> l.status]

\* toolHandlers.search_leads of the in-memory backend; the filter callback
\* throws when it reaches undefined.toLowerCase()
search_leads_mem(rows, query) ==
  LET q == toLowerCase(Chars(query))
      InName(lead) == includes(toLowerCase(Chars(lead.name)), q)
      InCompany(lead) == includes(toLowerCase(Chars(lead.company)), q)
      InEmail(lead) == includes(toLowerCase(Chars(lead.email)), q)
      InTags(lead) == \E i \in 1..Len(lead.tags.items) :
                        includes(toLowerCase(Chars(lead.tags.items[i])), q)
      Throws(lead) ==
        /\ ~InName(lead)
        /\ \/ lead.company = Null
           \/ ~InCompany(lead) /\ lead.email = Null
      hits == SelectSeq(rows, LAMBDA lead :
                InName(lead) \/ InCompany(lead) \/ InEmail(lead) \/ InTags(lead))
  IN IF \E i \in 1..Len(rows) : Throws(rows[i])
     THEN Thrown("TypeError: Cannot read properties of undefined")
     ELSE [success |-> TRUE, count |-> Len(hits),
           leads |-> [i \in 1..Len(hits) |-> FoundLead(hits[i])]]

\* ---------------------------------------------------------------- activity
LeadRows(rows, leadId) == SelectSeq(rows, LAMBDA r : r.leadId = leadId)

ActivityOf(lead, logs, mtgs, fups) ==
  [success |-> TRUE,
   activity |-> [totalEmails |-> Len(LeadRows(logs, lead.id)),
                 totalMeetings |-> Len(LeadRows(mtgs, lead.id)),
                 totalFollowUps |-> Len(LeadRows(fups, lead.id)),
                 lastContact |-> lead.lastContactedAt,
                 notes |-> Len(lead.notes.items)]]

RECURSIVE InsertDesc(_, _, _)
\* x put behind every row whose rows[i][field] is not earlier than x's
InsertDesc(sorted, x, field) ==
  IF sorted = <<>> THEN <<x>>
  ELSE IF DateOf(Head(sorted)[field]) >= DateOf(x[field])
       THEN <<Head(sorted)>> \o InsertDesc(Tail(sorted), x, field)
       ELSE <<x>> \o sorted

RECURSIVE SortDesc(_, _)
\* rows.sort((a, b) => new Date(b[field]).getTime() - new Date(a[field]).getTime())
SortDesc(rows, field) ==
  IF rows = <<>> THEN <<>>
  ELSE InsertDesc(SortDesc(SubSeq(rows, 1, Len(rows) - 1), field), rows[Len(rows)], field)

\* in-memory: the lead's rows newest first, then the derived blocks
get_lead_activity_mem(rows, logs, mtgs, fups, id, now) ==
  IF ~Exists(rows, id) THEN NotFound("Lead not found")
  ELSE
    LET lead == RowOf(rows, id)
        emails == SortDesc(LeadRows(logs, id), "sentAt")
        sortedMeetings == SortDesc(LeadRows(mtgs, id), "scheduledAt")
        followUpsOf == SortDesc(LeadRows(fups, id), "scheduledAt")
        recent == slice(emails, 0, 5)
        upcoming == slice(SelectSeq(sortedMeetings, LAMBDA m :
                            m.status = "scheduled" /\ DateOf(m.scheduledAt) > now), 0, 3)
    IN [success |-> TRUE,
        activity |-> ActivityOf(lead, logs, mtgs, fups).activity,
        recentEmails |-> [i \in 1..Len(recent) |->
                            [id |-> recent[i].id, sentAt |-> recent[i].sentAt,
                             status |-> recent[i].status]],
        upcomingMeetings |-> [i \in 1..Len(upcoming) |->
                                [id |-> upcoming[i].id, title |-> upcoming[i].title,
                                 scheduledAt |-> upcoming[i].scheduledAt]],
        pendingFollowUps |-> Len(SelectSeq(followUpsOf, LAMBDA f : ~f.completed))]

\* the orders a SELECT ... ORDER BY <field> ASC / DESC may return rows in
OrderedBy(rows, field, descending) ==
  {a \in Arrangements(rows) :
     \A i \in 1..(Len(a) - 1) :
       IF descending THEN DateOf(a[i][field]) >= DateOf(a[i + 1][field])
       ELSE DateOf(a[i][field]) <= DateOf(a[i + 1][field])}

\* a leadId argument that is missing or the empty string (ids are numbers here)
NoId == -1
TruthyId(id) == id # NoId

\* emailsDB.listByLead: WHERE lead_id = ? only under if (leadId)
emailsDB_listByLead(logs, leadId) ==
  OrderedBy(IF TruthyId(leadId) THEN LeadRows(logs, leadId) ELSE logs, "sentAt", TRUE)

\* meetingsDB.list / followUpsDB.list({ leadId }): ORDER BY scheduled_at ASC
dependentsDB_list(rows, leadId) ==
  OrderedBy(IF TruthyId(leadId) THEN LeadRows(rows, leadId) ELSE rows, "scheduledAt", FALSE)

\* db.ts: the lead, the counts and the three full lists; no derived block
get_lead_activity_sql(rows, logs, mtgs, fups, id) ==
  LET lead == leadsDB_getById(rows, id)
  IN IF lead = <<>> THEN {NotFound("Lead not found")}
     ELSE {[success |-> TRUE,
            activity |-> ActivityOf(lead[1], logs, mtgs, fups).activity,
            emails |-> e, meetings |-> m, followUps |-> f] :
              e \in emailsDB_listByLead(logs, id),
              m \in dependentsDB_list(mtgs, id),
              f \in dependentsDB_list(fups, id)}

\* ---------------------------------------------------------------- email history
\* in-memory: logs of the lead, newest first
get_email_history_mem(logs, leadId) ==
  LET found == SortDesc(LeadRows(logs, leadId), "sentAt")
  IN [success |-> TRUE, count |-> Len(found),
      emails |-> [i \in 1..Len(found) |->
                    [id |-> found[i].id, sentAt |-> found[i].sentAt, status |-> found[i].status]]]

\* db.ts: whatever emailsDB.listByLead(args.leadId) returns
get_email_history_sql(logs, leadId) ==
  {[success |-> TRUE, count |-> Len(e), emails |-> e] : e \in emailsDB_listByLead(logs, leadId)}

\* ---------------------------------------------------------------- tool catalogs
\* the operations each backend's handler table defines
Tools ==
  [mem |-> {"create_lead", "get_lead", "list_leads", "search_leads", "update_lead",
            "add_lead_note", "log_email", "get_email_history",
            "schedule_meeting", "complete_follow_up",
            "create_email_template", "compose_email", "get_pipeline", "get_sales_report",
            "get_lead_activity"},
   sql |-> {"create_lead", "get_lead", "list_leads", "search_leads", "update_lead",
            "add_lead_note", "delete_lead",
            "log_email", "get_email_history", "schedule_meeting", "update_meeting", "delete_meeting",
            "update_follow_up", "delete_follow_up", "complete_follow_up",
            "create_email_template", "update_email_template", "delete_email_template",
            "compose_email", "get_pipeline",
            "get_sales_report", "get_lead_activity"},
   json |-> {"create_lead", "get_lead", "list_leads", "update_lead", "delete_lead",
             "get_pipeline"}]

\* what get_lead shows of a stored row
Observed(b, row) == IF b = "sql" THEN DecodeLead(row) ELSE row

\* ---------------------------------------------------------------- state machine
\* the requests the HTTP server may be serving at once
Clients == {1, 2}
NotPending == [pc |-> "idle"]
NoPending == [c \in Clients |-> NotPending]

PerBackend(m, s, j) == [mem |-> m, sql |-> s, json |-> j]
Request(op, id, args) == [op |-> op, id |-> id, args |-> args]
Idle == Request("idle", 0, <<>>)

Init ==
  /\ clock = 0
  /\ idCounter = [leads |-> 0, others |-> 0]
  /\ leads = PerBackend(<<>>, <<>>, <<>>)
  /\ templates = [mem |-> initStorage_mem,
                  sql |-> initDatabase_sqlite(<<>>),
                  pg |-> initDatabase_pg(<<>>)]
  /\ emailLogs = PerBackend(<<>>, <<>>, <<>>)
  /\ meetings = PerBackend(<<>>, <<>>, <<>>)
  /\ followUps = PerBackend(<<>>, <<>>, <<>>)
  /\ call = Idle
  /\ pending = NoPending
  /\ result = PerBackend(NoResult, NoResult, NoResult)

\* time passes between two requests
Tick ==
  /\ clock < MaxClock
  /\ clock' = clock + 1
  /\ call' = Idle
  /\ result' = PerBackend(NoResult, NoResult, NoResult)
  /\ UNCHANGED <<pending, idCounter, leads, templates, emailLogs, meetings, followUps>>

\* create_lead while fewer than max leads have been created
CreateLeadUpTo(max, args) ==
  /\ idCounter.leads < max
  /\ LET id == idCounter.leads + 1
         m == create_lead_mem(leads.mem, id, clock, args)
         s == create_lead_sql(leads.sql, id, clock, args)
         j == create_lead_json(leads.json, id, clock, args)
     IN /\ leads' = PerBackend(m.leads, s.leads, j.leads)
        /\ result' = PerBackend(m.result, s.result, j.result)
        /\ call' = Request("create_lead", id, args)
  /\ idCounter' = [idCounter EXCEPT !.leads = @ + 1]
  /\ UNCHANGED <<pending, clock, templates, emailLogs, meetings, followUps>>

CreateLead(args) == CreateLeadUpTo(MaxLeads, args)

GetLead(id) ==
  /\ result' = PerBackend(get_lead_mem(leads.mem, id),
                          get_lead_sql(leads.sql, id),
                          get_lead_json(leads.json, id))
  /\ call' = Request("get_lead", id, <<>>)
  /\ UNCHANGED <<pending, clock, idCounter, leads, templates, emailLogs, meetings, followUps>>

NotesFull(id) ==
  \E b \in Backends :
    Exists(leads[b], id) /\ Len(RowOf(leads[b], id).notes.items) >= MaxNotes

UpdateLead(id, bag) ==
  /\ Has(bag, "notes") => ~NotesFull(id)
  /\ LET m == update_lead_mem(leads.mem, id, clock, bag)
         s == update_lead_sql(leads.sql, id, clock, bag)
         j == update_lead_json(leads.json, id, clock, bag)
     IN /\ leads' = PerBackend(m.leads, s.leads, j.leads)
        /\ result' = PerBackend(m.result, s.result, j.result)
        /\ call' = Request("update_lead", id, bag)
  /\ UNCHANGED <<pending, clock, idCounter, templates, emailLogs, meetings, followUps>>

AddLeadNote(id, note) ==
  /\ ~NotesFull(id)
  /\ LET m == add_lead_note_mem(leads.mem, id, clock, note)
         s == add_lead_note_sql(leads.sql, id, clock, note)
     IN /\ leads' = PerBackend(m.leads, s.leads, leads.json)
        /\ result' = PerBackend(m.result, s.result, UnknownTool)
        /\ call' = Request("add_lead_note", id, [note |-> note])
  /\ UNCHANGED <<pending, clock, idCounter, templates, emailLogs, meetings, followUps>>

\* ---- the SQL handlers step by step: other requests run at every await ----
\* add_lead_note / update_lead up to the return of `await leadsDB.getById`
ReadLead(c, op, id, args) ==
  /\ pending[c] = NotPending
  /\ ~NotesFull(id)
  /\ LET found == leadsDB_getById(leads.sql, id)
     IN IF found = <<>>
        THEN /\ pending' = pending
             /\ call' = Request(op, id, args)
             /\ result' = PerBackend(NotFound("Lead not found"), NotFound("Lead not found"),
                                     UnknownTool)
        ELSE /\ pending' = [pending EXCEPT ![c] =
                              [pc |-> "write", op |-> op, id |-> id, args |-> args,
                               lead |-> found[1]]]
             /\ call' = Idle
             /\ result' = PerBackend(NoResult, NoResult, NoResult)
  /\ UNCHANGED <<clock, idCounter, leads, templates, emailLogs, meetings, followUps>>

\* from there up to the return of `await leadsDB.update`; add_lead_note answers
WriteLead(c) ==
  /\ pending[c].pc = "write"
  /\ LET p == pending[c]
     IN IF p.op = "add_lead_note"
        THEN LET m == add_lead_note_mem(leads.mem, p.id, clock, p.args.note)
                 s == add_lead_note_write(leads.sql, p.lead, clock, p.args.note)
             IN /\ leads' = PerBackend(m.leads, s.leads, leads.json)
                /\ pending' = [pending EXCEPT ![c] = NotPending]
                /\ call' = Request("add_lead_note", p.id, p.args)
                /\ result' = PerBackend(m.result, s.result, UnknownTool)
        ELSE LET s == update_lead_write(leads.sql, p.lead, clock, p.args)
             IN /\ leads' = [leads EXCEPT !.sql = s.leads]
                /\ pending' = [pending EXCEPT ![c] =
                                 IF s.threw THEN NotPending ELSE [p EXCEPT !.pc = "reread"]]
                /\ call' = IF s.threw THEN Request("update_lead", p.id, p.args) ELSE Idle
                /\ result' = IF s.threw
                             THEN PerBackend(NoResult,
                                             Thrown("TypeError: lead.notes is not iterable"),
                                             NoResult)
                             ELSE PerBackend(NoResult, NoResult, NoResult)
  /\ UNCHANGED <<clock, idCounter, templates, emailLogs, meetings, followUps>>

\* update_lead's closing `lead: await leadsDB.getById(args.leadId)` and answer
RereadLead(c) ==
  /\ pending[c].pc = "reread"
  /\ LET p == pending[c]
         m == update_lead_mem(leads.mem, p.id, clock, p.args)
         j == update_lead_json(leads.json, p.id, clock, p.args)
     IN /\ leads' = PerBackend(m.leads, leads.sql, j.leads)
        /\ result' = PerBackend(m.result, update_lead_reread(leads.sql, p.id), j.result)
        /\ call' = Request("update_lead", p.id, p.args)
  /\ pending' = [pending EXCEPT ![c] = NotPending]
  /\ UNCHANGED <<clock, idCounter, templates, emailLogs, meetings, followUps>>

DeleteLead(id) ==
  /\ LET s == delete_lead_sql(leads.sql, id)
         j == delete_lead_json(leads.json, id)
     IN /\ leads' = PerBackend(leads.mem, s.leads, j.leads)
        /\ result' = PerBackend(UnknownTool, s.result, j.result)
        /\ call' = Request("delete_lead", id, <<>>)
  /\ UNCHANGED <<pending, clock, idCounter, templates, emailLogs, meetings, followUps>>

ListLeads(args) ==
  /\ \E s \in list_leads_sql(leads.sql, args) :
       result' = PerBackend(list_leads_mem(leads.mem, args), s,
                            list_leads_json(leads.json, args))
  /\ call' = Request("list_leads", 0, args)
  /\ UNCHANGED <<pending, clock, idCounter, leads, templates, emailLogs, meetings, followUps>>

SearchLeads(query) ==
  /\ \E s \in search_leads_sql(leads.sql, query) :
       result' = PerBackend(search_leads_mem(leads.mem, query), s, UnknownTool)
  /\ call' = Request("search_leads", 0, [query |-> query])
  /\ UNCHANGED <<pending, clock, idCounter, leads, templates, emailLogs, meetings, followUps>>

GetLeadActivity(id) ==
  /\ \E s \in get_lead_activity_sql(leads.sql, emailLogs.sql, meetings.sql, followUps.sql, id) :
       result' = PerBackend(
         get_lead_activity_mem(leads.mem, emailLogs.mem, meetings.mem, followUps.mem, id, clock),
         s, UnknownTool)
  /\ call' = Request("get_lead_activity", id, <<>>)
  /\ UNCHANGED <<pending, clock, idCounter, leads, templates, emailLogs, meetings, followUps>>

GetPipeline ==
  /\ result' = PerBackend(get_pipeline_mem(leads.mem),
                          get_pipeline_sql(leads.sql),
                          get_pipeline_json(leads.json))
  /\ call' = Request("get_pipeline", 0, <<>>)
  /\ UNCHANGED <<pending, clock, idCounter, leads, templates, emailLogs, meetings, followUps>>

GetSalesReport(args) ==
  /\ result' = PerBackend(
       get_sales_report_mem(leads.mem, emailLogs.mem, meetings.mem, clock, args),
       get_sales_report_sql(leads.sql, emailLogs.sql, meetings.sql, clock, args),
       UnknownTool)
  /\ call' = Request("get_sales_report", 0, args)
  /\ UNCHANGED <<pending, clock, idCounter, leads, templates, emailLogs, meetings, followUps>>

LogEmail(args) ==
  /\ idCounter.others < MaxDependents
  /\ LET id == idCounter.others + 1
         m == log_email_mem(leads.mem, emailLogs.mem, id, clock, args)
         s == log_email_sql(leads.sql, emailLogs.sql, id, clock, args)
     IN /\ leads' = PerBackend(m.leads, s.leads, leads.json)
        /\ emailLogs' = PerBackend(m.emailLogs, s.emailLogs, emailLogs.json)
        /\ result' = PerBackend(m.result, s.result, UnknownTool)
        /\ call' = Request("log_email", args.leadId, args)
  /\ idCounter' = [idCounter EXCEPT !.others = @ + 1]
  /\ UNCHANGED <<pending, clock, templates, meetings, followUps>>

GetEmailHistory(leadId) ==
  /\ \E s \in get_email_history_sql(emailLogs.sql, leadId) :
       result' = PerBackend(get_email_history_mem(emailLogs.mem, leadId), s, UnknownTool)
  /\ call' = Request("get_email_history", leadId, <<>>)
  /\ UNCHANGED <<pending, clock, idCounter, leads, templates, emailLogs, meetings, followUps>>

\* log_email through a front door, over a storage whose failAt-th call rejects
LogEmailOver(args, failAt, door) ==
  /\ idCounter.others < MaxDependents
  /\ LET id == idCounter.others + 1
         m == log_email_mem(leads.mem, emailLogs.mem, id, clock, args)
         s == log_email_steps(leads.sql, emailLogs.sql, id, clock, args, failAt)
     IN /\ leads' = PerBackend(m.leads, s.leads, leads.json)
        /\ emailLogs' = PerBackend(m.emailLogs, s.emailLogs, emailLogs.json)
        /\ result' = PerBackend(m.result, FrontDoor(door, s.outcome), UnknownTool)
        /\ call' = [op |-> "log_email", id |-> args.leadId, args |-> args,
                    threw |-> s.outcome.threw, failAt |-> failAt]
  /\ idCounter' = [idCounter EXCEPT !.others = @ + 1]
  /\ UNCHANGED <<pending, clock, templates, meetings, followUps>>

\* schedule_meeting through a front door, over a storage whose failAt-th call rejects
ScheduleMeetingOver(args, failAt, door) ==
  /\ idCounter.others + (IF WantsFollowUp(args) THEN 2 ELSE 1) <= MaxDependents
  /\ LET id == idCounter.others + 1
         m == schedule_meeting_mem(leads.mem, meetings.mem, followUps.mem, id, clock, args)
         s == schedule_meeting_steps(leads.sql, meetings.sql, followUps.sql, id, clock, args, failAt)
     IN /\ leads' = PerBackend(m.leads, s.leads, leads.json)
        /\ meetings' = PerBackend(m.meetings, s.meetings, meetings.json)
        /\ followUps' = PerBackend(m.followUps, s.followUps, followUps.json)
        /\ result' = PerBackend(m.result, FrontDoor(door, s.outcome), UnknownTool)
        /\ call' = [op |-> "schedule_meeting", id |-> args.leadId, args |-> args,
                    threw |-> s.outcome.threw, failAt |-> failAt]
  /\ idCounter' = [idCounter EXCEPT !.others = @ + (IF WantsFollowUp(args) THEN 2 ELSE 1)]
  /\ UNCHANGED <<pending, clock, templates, emailLogs>>

ScheduleMeeting(args) ==
  /\ idCounter.others + (IF WantsFollowUp(args) THEN 2 ELSE 1) <= MaxDependents
  /\ LET id == idCounter.others + 1
         m == schedule_meeting_mem(leads.mem, meetings.mem, followUps.mem, id, clock, args)
         s == schedule_meeting_sql(leads.sql, meetings.sql, followUps.sql, id, clock, args)
     IN /\ leads' = PerBackend(m.leads, s.leads, leads.json)
        /\ meetings' = PerBackend(m.meetings, s.meetings, meetings.json)
        /\ followUps' = PerBackend(m.followUps, s.followUps, followUps.json)
        /\ result' = PerBackend(m.result, s.result, UnknownTool)
        /\ call' = Request("schedule_meeting", args.leadId, args)
  /\ idCounter' = [idCounter EXCEPT !.others = @ + (IF WantsFollowUp(args) THEN 2 ELSE 1)]
  /\ UNCHANGED <<pending, clock, templates, emailLogs>>

UpdateMeeting(id, updates) ==
  /\ LET s == update_meeting_sql(meetings.sql, id, updates)
     IN /\ meetings' = [meetings EXCEPT !.sql = s.meetings]
        /\ result' = PerBackend(UnknownTool, s.result, UnknownTool)
        /\ call' = Request("update_meeting", id, updates)
  /\ UNCHANGED <<pending, clock, idCounter, leads, templates, emailLogs, followUps>>

DeleteMeeting(id) ==
  /\ LET s == delete_meeting_sql(meetings.sql, id)
     IN /\ meetings' = [meetings EXCEPT !.sql = s.meetings]
        /\ result' = PerBackend(UnknownTool, s.result, UnknownTool)
        /\ call' = Request("delete_meeting", id, <<>>)
  /\ UNCHANGED <<pending, clock, idCounter, leads, templates, emailLogs, followUps>>

UpdateFollowUp(id, updates) ==
  /\ LET s == update_follow_up_sql(followUps.sql, id, updates)
     IN /\ followUps' = [followUps EXCEPT !.sql = s.followUps]
        /\ result' = PerBackend(UnknownTool, s.result, UnknownTool)
        /\ call' = Request("update_follow_up", id, updates)
  /\ UNCHANGED <<pending, clock, idCounter, leads, templates, emailLogs, meetings>>

DeleteFollowUp(id) ==
  /\ LET s == delete_follow_up_sql(followUps.sql, id)
     IN /\ followUps' = [followUps EXCEPT !.sql = s.followUps]
        /\ result' = PerBackend(UnknownTool, s.result, UnknownTool)
        /\ call' = Request("delete_follow_up", id, <<>>)
  /\ UNCHANGED <<pending, clock, idCounter, leads, templates, emailLogs, meetings>>

CompleteFollowUp(id) ==
  /\ LET m == complete_follow_up_mem(followUps.mem, id, clock)
         s == complete_follow_up_sql(followUps.sql, id, clock)
     IN /\ followUps' = PerBackend(m.followUps, s.followUps, followUps.json)
        /\ result' = PerBackend(m.result, s.result, UnknownTool)
        /\ call' = Request("complete_follow_up", id, <<>>)
  /\ UNCHANGED <<pending, clock, idCounter, leads, templates, emailLogs, meetings>>

\* a process start: the persistent stores keep their rows and initDatabase
\* runs again; the in-memory backend starts from a fresh storage object
InitDatabase ==
  /\ templates' = [mem |-> initStorage_mem,
                   sql |-> initDatabase_sqlite(templates.sql),
                   pg |-> initDatabase_pg(templates.pg)]
  /\ leads' = [leads EXCEPT !.mem = <<>>]
  /\ emailLogs' = [emailLogs EXCEPT !.mem = <<>>]
  /\ meetings' = [meetings EXCEPT !.mem = <<>>]
  /\ followUps' = [followUps EXCEPT !.mem = <<>>]
  /\ call' = Request("initDatabase", 0, <<>>)
  /\ result' = PerBackend(NoResult, NoResult, NoResult)
  /\ UNCHANGED <<pending, clock, idCounter>>

\* a process start whose seeding meets a storage failure at its failAt-th INSERT
InitDatabaseOver(failAt) ==
  /\ LET s == initDatabase_sqlite_steps(templates.sql, failAt)
         p == initDatabase_pg_steps(templates.pg, failAt)
     IN /\ templates' = [mem |-> initStorage_mem, sql |-> s.rows, pg |-> p.rows]
        /\ call' = [op |-> "initDatabase", id |-> 0, args |-> <<>>,
                    threw |-> [sql |-> s.threw, pg |-> p.threw]]
  /\ leads' = [leads EXCEPT !.mem = <<>>]
  /\ emailLogs' = [emailLogs EXCEPT !.mem = <<>>]
  /\ meetings' = [meetings EXCEPT !.mem = <<>>]
  /\ followUps' = [followUps EXCEPT !.mem = <<>>]
  /\ result' = PerBackend(NoResult, NoResult, NoResult)
  /\ UNCHANGED <<pending, clock, idCounter>>

CreateEmailTemplate(args) ==
  /\ idCounter.others < MaxDependents
  /\ LET id == idCounter.others + 1
         m == create_email_template(templates.mem, id, args)
         s == create_email_template(templates.sql, id, args)
         p == create_email_template(templates.pg, id, args)
     IN /\ templates' = [mem |-> m.templates, sql |-> s.templates, pg |-> p.templates]
        /\ result' = PerBackend(m.result, s.result, UnknownTool)
        /\ call' = Request("create_email_template", id, args)
  /\ idCounter' = [idCounter EXCEPT !.others = @ + 1]
  /\ UNCHANGED <<pending, clock, leads, emailLogs, meetings, followUps>>

ComposeEmail(args) ==
  /\ LET m == compose_email(templates.mem, leads.mem, emailLogs.mem, args)
         s == compose_email(templates.sql, leads.sql, emailLogs.sql, args)
     IN /\ leads' = PerBackend(m.leads, s.leads, leads.json)
        /\ emailLogs' = PerBackend(m.emailLogs, s.emailLogs, emailLogs.json)
        /\ result' = PerBackend(m.result, s.result, UnknownTool)
        /\ call' = Request("compose_email", 0, args)
  /\ UNCHANGED <<pending, clock, idCounter, templates, meetings, followUps>>

UpdateEmailTemplate(id, updates) ==
  /\ LET s == update_email_template_sql(templates.sql, id, updates)
         p == update_email_template_sql(templates.pg, id, updates)
     IN /\ templates' = [templates EXCEPT !.sql = s.templates, !.pg = p.templates]
        /\ result' = PerBackend(UnknownTool, s.result, UnknownTool)
        /\ call' = Request("update_email_template", 0, [templateId |-> id, updates |-> updates])
  /\ UNCHANGED <<pending, clock, idCounter, leads, emailLogs, meetings, followUps>>

DeleteEmailTemplate(id) ==
  /\ LET s == delete_email_template_sql(templates.sql, id)
         p == delete_email_template_sql(templates.pg, id)
     IN /\ templates' = [templates EXCEPT !.sql = s.templates, !.pg = p.templates]
        /\ result' = PerBackend(UnknownTool, s.result, UnknownTool)
        /\ call' = Request("delete_email_template", 0, [templateId |-> id])
  /\ UNCHANGED <<pending, clock, idCounter, leads, emailLogs, meetings, followUps>>

\* ---------------------------------------------------------------- requests
LeadIds == 1..MaxLeads
DependentIds == 1..MaxDependents
ForgedId == 0
ForgedTime == [fmt |-> "iso", t |-> MaxClock + 1]

CreateArgs == { [name |-> "Ada"] }

CustomTemplate ==
  [name |-> "Custom", subject |-> <<Text("Offer for "), Placeholder("Name")>>,
   body |-> <<Text("Dear "), Placeholder("Name"), Text(" / "), Placeholder("name")>>]

UpdateBags ==
  { [notes |-> "called"],
    [status |-> "qualified", id |-> ForgedId, createdAt |-> ForgedTime] }

\* ---------------------------------------------------------------- lead lifecycle
Next ==
  \/ \E args \in CreateArgs : CreateLead(args)
  \/ \E id \in LeadIds : GetLead(id)
  \/ \E id \in LeadIds, bag \in UpdateBags : UpdateLead(id, bag)
  \/ \E id \in LeadIds : AddLeadNote(id, "memo")
  \/ \E id \in LeadIds : DeleteLead(id)
  \/ \E id \in LeadIds : GetLeadActivity(id)

Spec == Init /\ [][Next]_vars

\* ---------------------------------------------------------------- lead timestamps
MeetingArgs ==
  { [leadId |-> id, title |-> "Demo", scheduledAt |-> formatDate(MaxClock), createFollowUp |-> f] :
      id \in LeadIds, f \in BOOLEAN }

NextTime ==
  \/ Tick
  \/ idCounter.leads = 0 /\ CreateLead([name |-> "Ada"])
  \/ \E id \in LeadIds : UpdateLead(id, [status |-> "qualified"])
  \/ \E id \in LeadIds : AddLeadNote(id, "memo")
  \/ \E id \in LeadIds : LogEmail([leadId |-> id])
  \/ \E args \in {a \in MeetingArgs : ~a.createFollowUp} : ScheduleMeeting(args)

SpecTime == Init /\ [][NextTime]_vars

\* ---------------------------------------------------------------- scheduling
BareMeetingArgs ==
  { [leadId |-> id, title |-> "Demo", scheduledAt |-> formatDate(MaxClock)] : id \in LeadIds }

NextMeeting ==
  \/ Tick
  \/ idCounter.leads = 0 /\ CreateLead([name |-> "Ada"])
  \/ \E args \in MeetingArgs \cup BareMeetingArgs : ScheduleMeeting(args)

SpecMeeting == Init /\ [][NextMeeting]_vars

\* ---------------------------------------------------------------- follow-up completion
CompletionBags == { [completed |-> TRUE], [completed |-> FALSE] }

NextFollowUp ==
  \/ Tick
  \/ \E args \in {a \in MeetingArgs : a.createFollowUp} : ScheduleMeeting(args)
  \/ \E id \in DependentIds, bag \in CompletionBags : UpdateFollowUp(id, bag)
  \/ \E id \in DependentIds : CompleteFollowUp(id)

SpecFollowUp == Init /\ [][NextFollowUp]_vars

\* ---------------------------------------------------------------- composing
VariableMaps ==
  { [name |-> "Ada", company |-> "Acme"],
    [name |-> "", company |-> "Acme"],
    [Name |-> "Ada"] }

ComposeArgs ==
  { [templateId |-> t, variables |-> v] : t \in {DefaultId(1), GeneratedId(1)}, v \in VariableMaps }
    \cup { [templateId |-> DefaultId(3), leadId |-> 1] }
    \cup { [leadId |-> id, subject |-> <<Text("Hello")>>, body |-> <<Text("Hi there")>>] :
             id \in LeadIds }

NextCompose ==
  \/ CreateLead([name |-> "Ada"])
  \/ LogEmail([leadId |-> 1])
  \/ CreateEmailTemplate(CustomTemplate)
  \/ \E args \in ComposeArgs : ComposeEmail(args)

SpecCompose == Init /\ [][NextCompose]_vars

\* ---------------------------------------------------------------- listing and searching
ListCreateArgs ==
  { [name |-> "Ada", email |-> "a@x", company |-> "Acme", source |-> "Web",
     priority |-> "low", tags |-> <<"vip", "eu">>],
    [name |-> "Bo", email |-> "b@y", company |-> "Bolt", source |-> "Referral",
     priority |-> "high"],
    [name |-> "Ada", email |-> "a@x", company |-> "Bolt", source |-> "Web",
     status |-> "qualified", tags |-> <<"eu">>] }

ListArgs ==
  { [source |-> "Web"],
    [priority |-> "low", source |-> "Web"],
    [status |-> "qualified"],
    [tag |-> "vip"] }

Queries == {"ad", "VIP", "_"}

NextList ==
  \/ Tick
  \/ \E args \in ListCreateArgs : CreateLead(args)
  \/ \E args \in ListArgs : ListLeads(args)
  \/ ListLeads(<<>>)
  \/ \E query \in Queries : SearchLeads(query)

SpecList == Init /\ [][NextList]_vars

\* ---------------------------------------------------------------- pagination
PageArgs ==
  { [limit |-> JsNumber(1), page |-> JsNumber(2)],
    [limit |-> JsNumber(2)],
    [limit |-> JsNumeric(1), page |-> JsNumeric(2)],
    [limit |-> JsNumeric(2), page |-> JsNumeric(1)],
    [source |-> "Web", limit |-> JsNumber(1)] }

NextPage ==
  \/ \E args \in ListCreateArgs : CreateLeadUpTo(MaxListed, args)
  \/ \E args \in PageArgs : ListLeads(args)

SpecPage == Init /\ [][NextPage]_vars

\* ---------------------------------------------------------------- pipeline
PipelineCreateArgs ==
  { [name |-> "Ada"],
    [name |-> "Bob", status |-> "closed_won", estimatedValue |-> Num(5)],
    [name |-> "Cy", status |-> "closed_lost", estimatedValue |-> Num(2)],
    [name |-> "Di", status |-> "archived", estimatedValue |-> Num(1)] }

PipelineBags ==
  { [status |-> "negotiation"],
    [status |-> "closed_won"],
    [status |-> "on_hold"],
    [estimatedValue |-> Num(3)] }

NextPipeline ==
  \/ \E args \in PipelineCreateArgs : CreateLead(args)
  \/ \E id \in LeadIds, bag \in PipelineBags : UpdateLead(id, bag)
  \/ GetPipeline

SpecPipeline == Init /\ [][NextPipeline]_vars

\* ---------------------------------------------------------------- template store
TemplateIds ==
  {DefaultId(n) : n \in 1..Len(defaultTemplates)} \cup {GeneratedId(n) : n \in DependentIds}

NextSeed ==
  \/ InitDatabase
  \/ CreateEmailTemplate(CustomTemplate)
  \/ \E id \in TemplateIds : DeleteEmailTemplate(id)

SpecSeed == Init /\ [][NextSeed]_vars

\* ---------------------------------------------------------------- dependents
MeetingBags == { [status |-> "completed"] }
FollowUpBags == { [type |-> "call"] }

NextDependents ==
  \/ CreateLead([name |-> "Ada"])
  \/ \E id \in LeadIds : DeleteLead(id)
  \/ \E id \in LeadIds : LogEmail([leadId |-> id])
  \/ \E args \in {a \in MeetingArgs : a.createFollowUp} : ScheduleMeeting(args)
  \/ \E id \in DependentIds, bag \in MeetingBags : UpdateMeeting(id, bag)
  \/ \E id \in DependentIds : DeleteMeeting(id)
  \/ \E id \in DependentIds, bag \in FollowUpBags : UpdateFollowUp(id, bag)
  \/ \E id \in DependentIds : DeleteFollowUp(id)
  \/ \E id \in DependentIds : CompleteFollowUp(id)

SpecDependents == Init /\ [][NextDependents]_vars

\* ---------------------------------------------------------------- mem against sql
EqCreateArgs ==
  { [name |-> "Ada"],
    [name |-> "Bob", phone |-> "555", estimatedValue |-> Num(0), tags |-> <<"vip">>] }

EqBags ==
  { [status |-> "qualified"],
    [notes |-> "called"],
    [estimatedValue |-> Num(7)] }

NextEq ==
  \/ \E args \in EqCreateArgs : CreateLead(args)
  \/ \E id \in LeadIds : GetLead(id)
  \/ \E id \in LeadIds, bag \in EqBags : UpdateLead(id, bag)
  \/ \E id \in LeadIds : AddLeadNote(id, "memo")

SpecEq == Init /\ [][NextEq]_vars

\* ---------------------------------------------------------------- reporting
ReportCreateArgs ==
  { [name |-> "Ada", email |-> "a@x", company |-> "Acme", source |-> "Web", status |-> s,
     estimatedValue |-> Num(1)] : s \in {"new", "closed_won", "archived"} }

ReportArgs ==
  { <<>>, [fromDate |-> formatDate(1)], [toDate |-> formatDate(0)],
    [fromDate |-> formatDate(1), toDate |-> formatDate(MaxClock)] }

NextReport ==
  \/ Tick
  \/ \E args \in ReportCreateArgs : CreateLead(args)
  \/ \E id \in LeadIds : LogEmail([leadId |-> id])
  \/ \E args \in BareMeetingArgs : ScheduleMeeting(args)
  \/ \E args \in ReportArgs : GetSalesReport(args)

SpecReport == Init /\ [][NextReport]_vars

\* ---------------------------------------------------------------- activity
ActivityMeetingArgs ==
  { [leadId |-> 1, title |-> "Demo", scheduledAt |-> formatDate(t), createFollowUp |-> f] :
      t \in 1..(MaxClock + 2), f \in BOOLEAN }

NextActivity ==
  \/ Tick
  \/ idCounter.leads = 0 /\ CreateLead([name |-> "Ada"])
  \/ LogEmail([leadId |-> 1])
  \/ \E args \in ActivityMeetingArgs : ScheduleMeeting(args)
  \/ \E id \in DependentIds : CompleteFollowUp(id)
  \/ \E id \in LeadIds : GetLeadActivity(id)

SpecActivity == Init /\ [][NextActivity]_vars

\* ---------------------------------------------------------------- email history
NextHistory ==
  \/ Tick
  \/ \E args \in ListCreateArgs : CreateLead(args)
  \/ \E id \in LeadIds : LogEmail([leadId |-> id])
  \/ \E id \in LeadIds \cup {NoId} : GetEmailHistory(id)

SpecHistory == Init /\ [][NextHistory]_vars

\* ---------------------------------------------------------------- stored list columns
\* the texts a notes / tags column of the leads table may hold
StoredNotes ==
  { JSONstringify(<<>>), JSONstringify(<<PlainNote("memo")>>), MalformedText,
    JsonTextOf("null"), JsonTextOf("object"), SqlNull }

StoredTags == { JSONstringify(<<"vip">>), MalformedText, JsonTextOf("number") }

\* a leads row as the database file holds it
StoredLead(notes, tags) ==
  [ id |-> 1, name |-> "Ada", email |-> "a@x", phone |-> Null, company |-> "Acme",
    status |-> "new", source |-> "Web", notes |-> notes,
    createdAt |-> CURRENT_TIMESTAMP(0), updatedAt |-> CURRENT_TIMESTAMP(0),
    lastContactedAt |-> NoTime, estimatedValue |-> NoNumber, priority |-> "medium",
    tags |-> tags ]

\* the server starts over a database that already holds one lead
InitDecode ==
  /\ clock = 0
  /\ idCounter = [leads |-> 1, others |-> 0]
  /\ \E notes \in StoredNotes, tags \in StoredTags :
       leads = PerBackend(<<>>, <<StoredLead(notes, tags)>>, <<>>)
  /\ templates = [mem |-> initStorage_mem,
                  sql |-> initDatabase_sqlite(<<>>),
                  pg |-> initDatabase_pg(<<>>)]
  /\ emailLogs = PerBackend(<<>>, <<>>, <<>>)
  /\ meetings = PerBackend(<<>>, <<>>, <<>>)
  /\ followUps = PerBackend(<<>>, <<>>, <<>>)
  /\ call = Idle
  /\ pending = NoPending
  /\ result = PerBackend(NoResult, NoResult, NoResult)

NextDecode ==
  \/ Tick
  \/ GetLead(1)
  \/ ListLeads(<<>>)
  \/ AddLeadNote(1, "memo")
  \/ \E bag \in {[notes |-> "called"], [status |-> "qualified"]} : UpdateLead(1, bag)

SpecDecode == InitDecode /\ [][NextDecode]_vars

\* ---------------------------------------------------------------- storage failures
Doors == {"tool", "rest"}

NextFailure ==
  \/ Tick
  \/ idCounter.leads = 0 /\ CreateLead([name |-> "Ada"])
  \/ \E id \in LeadIds, failAt \in 0..3, door \in Doors :
       LogEmailOver([leadId |-> id], failAt, door)
  \/ \E args \in MeetingArgs, failAt \in 0..4, door \in Doors :
       ScheduleMeetingOver(args, failAt, door)

SpecFailure == Init /\ [][NextFailure]_vars

\* ---------------------------------------------------------------- concurrent requests
RaceBags == { [notes |-> "called"], [status |-> "qualified"] }

NextRace ==
  \/ Tick
  \/ idCounter.leads = 0 /\ CreateLead([name |-> "Ada"])
  \/ \E c \in Clients : ReadLead(c, "add_lead_note", 1, [note |-> "memo"])
  \/ \E c \in Clients, bag \in RaceBags : ReadLead(c, "update_lead", 1, bag)
  \/ \E c \in Clients : WriteLead(c)
  \/ \E c \in Clients : RereadLead(c)
  \/ DeleteLead(1)

SpecRace == Init /\ [][NextRace]_vars

\* ---------------------------------------------------------------- failing seeding
NextSeedFailure ==
  \/ Tick
  \/ \E failAt \in 0..Len(defaultTemplates) : InitDatabaseOver(failAt)
  \/ CreateEmailTemplate(CustomTemplate)
  \/ \E id \in TemplateIds : DeleteEmailTemplate(id)

SpecSeedFailure == Init /\ [][NextSeedFailure]_vars

\* ---------------------------------------------------------------- partial updates
\* updates bags: empty, with an unknown field only, with a recognised field
NoUpdates == <<>>
UnknownUpdates == [colour |-> "red"]

NextUpdate ==
  \/ Tick
  \/ idCounter.leads = 0 /\ CreateLead([name |-> "Ada"])
  \/ \E args \in MeetingArgs : ScheduleMeeting(args)
  \/ \E id \in DependentIds, bag \in MeetingBags \cup {NoUpdates, UnknownUpdates} :
       UpdateMeeting(id, bag)
  \/ \E id \in DependentIds, bag \in FollowUpBags \cup {NoUpdates, UnknownUpdates} :
       UpdateFollowUp(id, bag)
  \/ \E bag \in {[name |-> "Intro"], NoUpdates, UnknownUpdates} :
       UpdateEmailTemplate(DefaultId(1), bag)

SpecUpdate == Init /\ [][NextUpdate]_vars

\* ================================================================ properties
\* C1: in every backend no update_lead call changes a lead's id or
\* createdAt, whatever keys the updates bag carries: across every
\* update_lead step each stored lead keeps its id and its createdAt.
C1_IdAndCreatedAtImmutable ==
  [][call'.op = "update_lead" =>
       \A b \in Backends :
         /\ Len(leads'[b]) = Len(leads[b])
         /\ \A i \in 1..Len(leads[b]) :
              /\ leads'[b][i].id = leads[b][i].id
              /\ leads'[b][i].createdAt = leads[b][i].createdAt]_vars

\* C2: in every backend a lead's notes only grows: across every update_lead
\* or add_lead_note step the notes of each lead are still a sequence and the
\* notes held before the call are a prefix of the notes held after it.
C2_NotesOnlyGrow ==
  [][call'.op \in {"update_lead", "add_lead_note"} =>
       \A b \in Backends :
         \A i \in 1..Len(leads[b]) :
           i <= Len(leads'[b]) =>
             /\ Observed(b, leads'[b][i]).notes.kind = "array"
             /\ IsPrefix(Observed(b, leads[b][i]).notes.items,
                         Observed(b, leads'[b][i]).notes.items)]_vars

\* C3: every successful update_lead, add_lead_note, log_email or
\* schedule_meeting for an existing lead leaves that lead's updatedAt
\* strictly greater than before, and updatedAt never decreases in any step.
MutatingOps == {"update_lead", "add_lead_note", "log_email", "schedule_meeting"}

C3_UpdatedAtStrictlyIncreases ==
  [][\A b \in Backends :
       \A i \in 1..Len(leads[b]) :
         i <= Len(leads'[b]) /\ leads'[b][i].id = leads[b][i].id =>
           /\ leads'[b][i].updatedAt.t >= leads[b][i].updatedAt.t
           /\ ( /\ call'.op \in MutatingOps
                /\ call'.op \in Tools[b]
                /\ call'.id = leads[b][i].id
                /\ result'[b].success )
              => leads'[b][i].updatedAt.t > leads[b][i].updatedAt.t]_vars

\* C4: get_pipeline (in-memory and SQL-backed) returns seven stage entries
\* whose counts sum to summary.totalLeads and whose values sum to
\* summary.totalPipelineValue, for every stored set of leads.
StageSum(pipeline, field) ==
  SumSeq([i \in 1..Len(PipelineStages) |-> pipeline[PipelineStages[i]][field]])

C4_PipelineSums ==
  call.op = "get_pipeline" =>
    \A b \in {"mem", "sql"} :
      /\ result[b].success
      /\ DOMAIN result[b].pipeline = StageSet
      /\ StageSum(result[b].pipeline, "count") = result[b].summary.totalLeads
      /\ StageSum(result[b].pipeline, "value") = result[b].summary.totalPipelineValue

\* C5: get_pipeline's winRate is "0%" whenever no lead is closed_won or
\* closed_lost, otherwise won / (won + lost) x 100 followed by "%"; never NaN.
Closed(rows, status) == Cardinality({i \in 1..Len(rows) : rows[i].status = status})

C5_WinRateZeroGuard ==
  call.op = "get_pipeline" =>
    \A b \in {"mem", "sql"} :
      result[b].success =>
        LET won == Closed(leads[b], "closed_won")
            lost == Closed(leads[b], "closed_lost")
        IN /\ result[b].summary.winRate.text # "NaN"
           /\ result[b].summary.winRate.suffix = "%"
           /\ won + lost = 0 => result[b].summary.winRate = ZeroPercent
           /\ won + lost > 0 =>
                result[b].summary.winRate = Percent(toFixed1(won, won + lost))

\* C6: running store initialization again never duplicates a default
\* template: after each initialization every backend holds at most one
\* template per default id, and an initialization of a persistent store that
\* finds at least one template stored leaves the store as it was.
DefaultCount(rows, n) == Cardinality({i \in 1..Len(rows) : rows[i].id = DefaultId(n)})

C6_SeedingIdempotent ==
  [][call'.op = "initDatabase" =>
       /\ \A b \in TemplateBackends :
            \A n \in 1..Len(defaultTemplates) : DefaultCount(templates'[b], n) <= 1
       /\ \A b \in SqlBackends :
            Len(templates[b]) >= 1 => templates'[b] = templates[b]]_vars

\* an initialization has just run on a store that held templates but not
\* the first default one
C6_Witness ==
  /\ call.op = "initDatabase"
  /\ \A b \in SqlBackends :
       Len(templates[b]) >= 1 /\ ~Exists(templates[b], DefaultId(1))

\* C7: delete_lead removes exactly the addressed lead, keeps every other
\* lead and every email log, meeting and follow-up (those of the deleted
\* lead included), and later updates and deletes of the orphans go through.
Orphan(b, row) == ~Exists(leads[b], row.leadId)

C7_DeleteLeadNoCascade ==
  [][/\ call'.op = "delete_lead" =>
          /\ emailLogs' = emailLogs
          /\ meetings' = meetings
          /\ followUps' = followUps
          /\ leads'.mem = leads.mem
          /\ \A b \in {"sql", "json"} :
               /\ ~Exists(leads'[b], call'.id)
               /\ Len(leads'[b]) = Len(leads[b]) - (IF Exists(leads[b], call'.id) THEN 1 ELSE 0)
               /\ \A i \in 1..Len(leads[b]) :
                    leads[b][i].id # call'.id =>
                      \E j \in 1..Len(leads'[b]) : leads'[b][j] = leads[b][i]
     /\ ( /\ call'.op \in {"update_meeting", "delete_meeting"}
          /\ Exists(meetings.sql, call'.id)
          /\ Orphan("sql", RowOf(meetings.sql, call'.id)) )
        => /\ result'.sql.success
           /\ call'.op = "delete_meeting" => ~Exists(meetings'.sql, call'.id)
           /\ call'.op = "update_meeting" =>
                \A k \in DOMAIN call'.args :
                  RowOf(meetings'.sql, call'.id)[k] = call'.args[k]
     /\ ( /\ call'.op \in {"update_follow_up", "delete_follow_up", "complete_follow_up"}
          /\ Exists(followUps.sql, call'.id)
          /\ Orphan("sql", RowOf(followUps.sql, call'.id)) )
        => /\ result'.sql.success
           /\ call'.op = "delete_follow_up" => ~Exists(followUps'.sql, call'.id)
           /\ call'.op = "complete_follow_up" => RowOf(followUps'.sql, call'.id).completed
           /\ call'.op = "update_follow_up" =>
                \A k \in DOMAIN call'.args :
                  RowOf(followUps'.sql, call'.id)[k] = call'.args[k]]_vars

\* a lead with a meeting and a follow-up has just been deleted while
\* another lead is stored
C7_Witness ==
  /\ call.op = "delete_lead"
  /\ result.sql.success
  /\ Len(leads.sql) >= 1
  /\ \E i \in 1..Len(meetings.sql) : meetings.sql[i].leadId = call.id
  /\ \E i \in 1..Len(followUps.sql) : followUps.sql[i].leadId = call.id

\* C8: in every backend that has the tool, get_lead, update_lead,
\* add_lead_note, delete_lead and get_lead_activity called with a leadId that
\* does not resolve answer {success:false, error:"Lead not found"} and leave
\* the stored state unchanged.
LeadOps == {"get_lead", "update_lead", "add_lead_note", "delete_lead", "get_lead_activity"}

C8_LeadNotFound ==
  [][call'.op \in LeadOps =>
       \A b \in Backends :
         (call'.op \in Tools[b] /\ ~Exists(leads[b], call'.id)) =>
           /\ result'[b] = NotFound("Lead not found")
           /\ leads'[b] = leads[b]
           /\ emailLogs'[b] = emailLogs[b]
           /\ meetings'[b] = meetings[b]
           /\ followUps'[b] = followUps[b]]_vars

\* C9: update_meeting, delete_meeting, update_follow_up, delete_follow_up
\* and complete_follow_up called with an id that resolves to no stored
\* meeting / follow-up answer {success:false, error:"<Entity> not found"}.
MeetingOps == {"update_meeting", "delete_meeting"}
FollowUpOps == {"update_follow_up", "delete_follow_up", "complete_follow_up"}

C9_DependentNotFound ==
  [][\A b \in Backends :
       /\ (call'.op \in MeetingOps /\ call'.op \in Tools[b] /\ ~Exists(meetings[b], call'.id))
            => result'[b] = NotFound("Meeting not found")
       /\ (call'.op \in FollowUpOps /\ call'.op \in Tools[b] /\ ~Exists(followUps[b], call'.id))
            => result'[b] = NotFound("Follow-up not found")]_vars

\* C10: the in-memory and the SQL-backed backend answer every sequence of
\* create_lead, update_lead, add_lead_note and get_lead calls with the same
\* success flags, and get_lead shows the same name, phone, status, priority,
\* estimatedValue, notes and tags in both.
ComparedFields == {"name", "phone", "status", "priority", "estimatedValue", "notes", "tags"}

C10_MemSqlEquivalent ==
  call.op \in {"create_lead", "update_lead", "add_lead_note", "get_lead"} =>
    /\ result.mem.success = result.sql.success
    /\ (call.op = "get_lead" /\ result.mem.success) =>
         \A k \in ComparedFields : result.mem.lead[k] = result.sql.lead[k]

\* C11: log_email for an existing lead stores exactly one new email log and
\* sets that lead's lastContactedAt and updatedAt both to the sentAt of the
\* stored log, the value get_email_history reports for it.
C11_LogEmailTouchesLead ==
  [][(call'.op = "log_email") =>
       \A b \in {"mem", "sql"} :
         Exists(leads[b], call'.id) =>
           /\ Len(emailLogs'[b]) = Len(emailLogs[b]) + 1
           /\ SubSeq(emailLogs'[b], 1, Len(emailLogs[b])) = emailLogs[b]
           /\ LET log == emailLogs'[b][Len(emailLogs'[b])]
                  lead == RowOf(leads'[b], call'.id)
              IN /\ log.leadId = call'.id
                 /\ lead.lastContactedAt = log.sentAt
                 /\ lead.updatedAt = log.sentAt]_vars

\* C12: schedule_meeting adds exactly one meeting with status "scheduled";
\* with createFollowUp true it adds exactly one follow-up, of type "task",
\* not completed, carrying the meeting's leadId and scheduledAt and a
\* description containing the title, otherwise it adds no follow-up; and an
\* existing lead's lastContactedAt becomes a time not earlier than the start
\* of the call.
C12_ScheduleMeetingEffects ==
  [][(call'.op = "schedule_meeting") =>
       \A b \in {"mem", "sql"} :
         LET args == call'.args
             n == Len(meetings[b])
             f == Len(followUps[b])
         IN /\ Len(meetings'[b]) = n + 1
            /\ SubSeq(meetings'[b], 1, n) = meetings[b]
            /\ meetings'[b][n + 1].status = "scheduled"
            /\ meetings'[b][n + 1].leadId = args.leadId
            /\ IF Has(args, "createFollowUp") /\ args.createFollowUp
               THEN /\ Len(followUps'[b]) = f + 1
                    /\ SubSeq(followUps'[b], 1, f) = followUps[b]
                    /\ LET fu == followUps'[b][f + 1]
                       IN /\ fu.type = "task"
                          /\ ~fu.completed
                          /\ fu.leadId = args.leadId
                          /\ fu.scheduledAt = args.scheduledAt
                          /\ \E i \in 1..Len(fu.description) : fu.description[i] = args.title
               ELSE followUps'[b] = followUps[b]
            /\ Exists(leads[b], args.leadId) =>
                 LET lead == RowOf(leads'[b], args.leadId)
                 IN lead.lastContactedAt.fmt = "iso" /\ lead.lastContactedAt.t >= clock]_vars

\* a meeting with a follow-up has just been scheduled for a stored lead,
\* some time after the lead was created
C12_Witness ==
  /\ call.op = "schedule_meeting"
  /\ Has(call.args, "createFollowUp") /\ call.args.createFollowUp
  /\ \A b \in {"mem", "sql"} :
       /\ Exists(leads[b], call.args.leadId)
       /\ Len(followUps[b]) >= 1
  /\ clock > 0

\* C13: a follow-up has completedAt set exactly when completed is true, and
\* complete_follow_up on an already completed follow-up leaves its
\* completedAt unchanged.
C13_CompletedAtOnlyOnCompletion ==
  [][\A b \in {"mem", "sql"} :
       /\ \A i \in 1..Len(followUps'[b]) :
            followUps'[b][i].completed <=> (followUps'[b][i].completedAt # NoTime)
       /\ ( /\ call'.op = "complete_follow_up"
            /\ Exists(followUps[b], call'.id)
            /\ RowOf(followUps[b], call'.id).completed )
          => RowOf(followUps'[b], call'.id).completedAt
               = RowOf(followUps[b], call'.id).completedAt]_vars

\* C14: compose_email changes no stored state: every lead, email log,
\* template, meeting and follow-up is the same before and after the call,
\* whatever templateId, leadId and variables it is given, the "Template not
\* found" outcome included.
C14_ComposeEmailReadOnly ==
  [][(call'.op = "compose_email") =>
       /\ leads' = leads
       /\ emailLogs' = emailLogs
       /\ templates' = templates
       /\ meetings' = meetings
       /\ followUps' = followUps]_vars

\* an email has just been composed for a stored lead that already has a
\* logged email
C14_Witness ==
  /\ call.op = "compose_email"
  /\ \A b \in {"mem", "sql"} :
       /\ result[b].success
       /\ result[b].email.recipient # <<>>
       /\ Len(emailLogs[b]) >= 1

\* C15: compose_email with an existing templateId replaces, in subject and
\* body, every placeholder whose identifier is a key of the variables map by
\* that key's value, leaves every other placeholder as it is, and never
\* fails.
Replaced(template, variables) ==
  [i \in 1..Len(template) |->
     IF template[i].kind = "placeholder" /\ template[i].s \in DOMAIN variables
     THEN Text(variables[template[i].s])
     ELSE template[i]]

C15_ComposeEmailInterpolates ==
  (call.op = "compose_email" /\ Has(call.args, "templateId")) =>
    \A b \in {"mem", "sql"} :
      Exists(templates[b], call.args.templateId) =>
        LET tpl == RowOf(templates[b], call.args.templateId)
            variables == IF Has(call.args, "variables") THEN call.args.variables ELSE <<>>
        IN /\ result[b].success
           /\ result[b].email.subject = Replaced(tpl.subject, variables)
           /\ result[b].email.body = Replaced(tpl.body, variables)

\* C16: get_lead of the id that a create_lead call has just created returns
\* a lead whose name, phone, status, estimatedValue, priority, notes and
\* tags are the values supplied to create_lead, defaults applied where
\* omitted, with notes and tags as arrays.
Supplied(args) ==
  [ name |-> args.name,
    phone |-> IF Has(args, "phone") THEN args.phone ELSE Null,
    status |-> IF Has(args, "status") THEN args.status ELSE "new",
    estimatedValue |-> IF Has(args, "estimatedValue") THEN args.estimatedValue ELSE NoNumber,
    priority |-> IF Has(args, "priority") THEN args.priority ELSE "medium",
    notes |-> JsArray(IF Has(args, "notes") THEN <<PlainNote(args.notes)>> ELSE <<>>),
    tags |-> JsArray(IF Has(args, "tags") THEN args.tags ELSE <<>>) ]

C16_CreateGetRoundTrip ==
  [][(call.op = "create_lead" /\ call'.op = "get_lead" /\ call'.id = call.id) =>
       \A b \in {"mem", "sql"} :
         /\ result'[b].success
         /\ \A k \in DOMAIN Supplied(call.args) :
              result'[b].lead[k] = Supplied(call.args)[k]]_vars

\* C17: list_leads returns exactly the leads that satisfy all of the
\* supplied status, priority and source filters, ordered by priority rank
\* (high before medium before low) and, among leads of equal priority, by
\* createdAt descending; re-sorting the unfiltered result by that key leaves
\* it unchanged.
Rank(priority) == IF priority = "high" THEN 0 ELSE IF priority = "medium" THEN 1 ELSE 2

Satisfies(lead, args) ==
  /\ Has(args, "status") => lead.status = args.status
  /\ Has(args, "priority") => lead.priority = args.priority
  /\ Has(args, "source") => lead.source = args.source

\* x may stand before y in the default ordering
InOrder(x, y) ==
  \/ Rank(x.priority) < Rank(y.priority)
  \/ Rank(x.priority) = Rank(y.priority) /\ x.createdAt.t >= y.createdAt.t

RECURSIVE InsertByKey(_, _, _)
InsertByKey(b, sorted, x) ==
  IF sorted = <<>> THEN <<x>>
  ELSE IF ~InOrder(RowOf(leads[b], Head(sorted).id), RowOf(leads[b], x.id))
       THEN <<x>> \o sorted
  ELSE <<Head(sorted)>> \o InsertByKey(b, Tail(sorted), x)

RECURSIVE Resorted(_, _)
Resorted(b, listed) ==
  IF listed = <<>> THEN <<>>
  ELSE InsertByKey(b, Resorted(b, SubSeq(listed, 1, Len(listed) - 1)), listed[Len(listed)])

C18_ListLeadsPagination ==
  (call.op = "list_leads" /\ ~Has(call.args, "tag")) =>
    \A b \in {"mem", "sql"} :
      LET L == IF Has(call.args, "limit") THEN call.args.limit.n ELSE 50
          P == IF Has(call.args, "page") THEN call.args.page.n ELSE 1
          matching == SelectSeq(leads[b], LAMBDA l : Satisfies(l, call.args))
          listed == result[b].leads
      IN /\ result[b].success
         /\ result[b].total = Len(matching)
         /\ Len(listed) <= L
         /\ \E full \in Arrangements(matching) :
              /\ \A i, j \in 1..Len(full) : i < j => InOrder(full[i], full[j])
              /\ LET last == IF P * L < Len(full) THEN P * L ELSE Len(full)
                 IN /\ Len(listed) = (IF last > (P - 1) * L THEN last - (P - 1) * L ELSE 0)
                    /\ \A i \in 1..Len(listed) : listed[i].id = full[(P - 1) * L + i].id

\* C19: search_leads(query) returns exactly the leads whose name, company or
\* email contains the query as a case-insensitive substring or one of whose
\* tags matches the query, and no other lead, ordered by createdAt
\* descending.
Contains(text, query) ==
  text # Null /\ includes(toLowerCase(Chars(text)), toLowerCase(Chars(query)))

Found(lead, query) ==
  \/ Contains(lead.name, query)
  \/ Contains(lead.company, query)
  \/ Contains(lead.email, query)
  \/ \E i \in 1..Len(lead.tags.items) : Contains(lead.tags.items[i], query)

C19_SearchLeadsExactAndOrdered ==
  call.op = "search_leads" =>
    \A b \in {"mem", "sql"} :
      LET listed == result[b].leads
      IN /\ result[b].success
         /\ \A i \in 1..Len(leads[b]) :
              Found(leads[b][i], call.args.query)
                <=> \E j \in 1..Len(listed) : listed[j].id = leads[b][i].id
         /\ Len(listed) = Cardinality({i \in 1..Len(leads[b]) : Found(leads[b][i], call.args.query)})
         /\ \A i, j \in 1..Len(listed) :
              i < j => RowOf(leads[b], listed[i].id).createdAt.t
                         >= RowOf(leads[b], listed[j].id).createdAt.t

\* C20: list_leads called with a tag argument returns only leads whose tags
\* contain that tag.
C20_ListLeadsTagFilter ==
  (call.op = "list_leads" /\ Has(call.args, "tag")) =>
    \A b \in {"mem", "sql"} :
      /\ result[b].success
      /\ \A j \in 1..Len(result[b].leads) :
           LET lead == RowOf(leads[b], result[b].leads[j].id)
           IN \E i \in 1..Len(lead.tags.items) : lead.tags.items[i] = call.args.tag


RECURSIVE SumOver(_)
\* the sum of the values of a function
SumOver(f) ==
  IF DOMAIN f = {} THEN 0
  ELSE LET k == CHOOSE x \in DOMAIN f : TRUE
       IN f[k] + SumOver([x \in DOMAIN f \ {k} |-> f[x]])

InReportWindow(rows, field) ==
  {i \in 1..Len(rows) : InWindow(rows[i][field], WindowOf(call.args, clock))}

\* C21: get_sales_report counts the leads created, the email logs sent and
\* the meetings scheduled inside the window; the per-status counts sum to the
\* leads in the window; emailsByDay and leadsByDay are keyed by dates and sum
\* to emailsSent and to the leads in the window; an empty window gives zero
\* counts, averageDealSize 0 and winRate "0".
C21_SalesReportWindow ==
  call.op = "get_sales_report" =>
    \A b \in {"mem", "sql"} :
      LET r == result[b]
          inLeads == InReportWindow(leads[b], "createdAt")
          inEmails == InReportWindow(emailLogs[b], "sentAt")
          inMeetings == InReportWindow(meetings[b], "scheduledAt")
      IN /\ r.success
         /\ \A s \in StageSet :
              r.leads[s] = Cardinality({i \in inLeads : leads[b][i].status = s})
         /\ SumOver(r.leads) = Cardinality(inLeads)
         /\ r.activity.emailsSent = Cardinality(inEmails)
         /\ r.activity.meetingsScheduled = Cardinality(inMeetings)
         /\ \A k \in DOMAIN r.activity.emailsByDay : k.kind = "date"
         /\ SumOver(r.activity.emailsByDay) = r.activity.emailsSent
         /\ Has(r.activity, "leadsByDay")
         /\ \A k \in DOMAIN r.activity.leadsByDay : k.kind = "date"
         /\ SumOver(r.activity.leadsByDay) = Cardinality(inLeads)
         /\ (inLeads = {} /\ inEmails = {} /\ inMeetings = {}) =>
              /\ r.revenue.averageDealSize.sum = 0
              /\ r.revenue.winRate.text = "0"


Least(a, b) == IF a < b THEN a ELSE b

\* C22: get_lead_activity of an existing lead returns the (up to) 3 earliest
\* future scheduled meetings of the lead in ascending scheduledAt order, the
\* lead's (up to) 5 latest email logs, and the number of its follow-ups that
\* are not completed.
C22_LeadActivityBlocks ==
  call.op = "get_lead_activity" =>
    \A b \in {"mem", "sql"} :
      Exists(leads[b], call.id) =>
        LET r == result[b]
            future == {i \in 1..Len(meetings[b]) :
                         /\ meetings[b][i].leadId = call.id
                         /\ meetings[b][i].status = "scheduled"
                         /\ DateOf(meetings[b][i].scheduledAt) > clock}
            sent == {i \in 1..Len(emailLogs[b]) : emailLogs[b][i].leadId = call.id}
            unfinished == {i \in 1..Len(followUps[b]) :
                          followUps[b][i].leadId = call.id /\ ~followUps[b][i].completed}
        IN /\ r.success
           /\ Has(r, "upcomingMeetings") /\ Has(r, "recentEmails") /\ Has(r, "pendingFollowUps")
           /\ Len(r.upcomingMeetings) = Least(3, Cardinality(future))
           /\ \A j \in 1..Len(r.upcomingMeetings) :
                /\ \E i \in future : meetings[b][i].id = r.upcomingMeetings[j].id
                /\ \A i \in future :
                     \/ \E k \in 1..Len(r.upcomingMeetings) :
                          r.upcomingMeetings[k].id = meetings[b][i].id
                     \/ DateOf(meetings[b][i].scheduledAt)
                          >= DateOf(r.upcomingMeetings[j].scheduledAt)
           /\ \A j, k \in 1..Len(r.upcomingMeetings) :
                j < k => DateOf(r.upcomingMeetings[j].scheduledAt)
                           <= DateOf(r.upcomingMeetings[k].scheduledAt)
           /\ Len(r.recentEmails) = Least(5, Cardinality(sent))
           /\ \A j \in 1..Len(r.recentEmails) :
                /\ \E i \in sent : emailLogs[b][i].id = r.recentEmails[j].id
                /\ \A i \in sent :
                     \/ \E k \in 1..Len(r.recentEmails) :
                          r.recentEmails[k].id = emailLogs[b][i].id
                     \/ DateOf(emailLogs[b][i].sentAt) <= DateOf(r.recentEmails[j].sentAt)
           /\ r.pendingFollowUps = Cardinality(unfinished)


\* C30: get_email_history returns only email logs whose leadId is the leadId
\* argument, newest sentAt first; for a missing or empty leadId too, no log
\* of another lead is returned.
C30_EmailHistoryOfLeadOnly ==
  call.op = "get_email_history" =>
    \A b \in {"mem", "sql"} :
      LET emails == result[b].emails
      IN /\ result[b].success
         /\ \A j \in 1..Len(emails) : RowOf(emailLogs[b], emails[j].id).leadId = call.id
         /\ \A j, k \in 1..Len(emails) :
              j < k => DateOf(emails[j].sentAt) >= DateOf(emails[k].sentAt)


\* C23: whatever text a list column holds, getById and list return notes and
\* tags as sequences (the empty one for a text that is no serialized array),
\* and a following add_lead_note or update_lead completes without an
\* exception.
C23_StoredListsDecodeToSequences ==
  /\ (call.op = "get_lead" /\ result.sql.success) =>
       /\ result.sql.lead.notes.kind = "array"
       /\ result.sql.lead.tags.kind = "array"
  /\ call.op = "list_leads" =>
       \A j \in 1..Len(result.sql.leads) :
         /\ result.sql.leads[j].notes.kind = "array"
         /\ result.sql.leads[j].tags.kind = "array"
  /\ call.op \in {"add_lead_note", "update_lead"} => ~Has(result.sql, "isError")


C27_FailureLeavesLeadStale ==
  [][(Has(call', "threw") /\ call'.threw /\ call'.failAt > 1) =>
       /\ leads'.sql = leads.sql
       /\ call'.op = "log_email" =>
            /\ Len(emailLogs'.sql) = Len(emailLogs.sql) + 1
            /\ SubSeq(emailLogs'.sql, 1, Len(emailLogs.sql)) = emailLogs.sql
            /\ emailLogs'.sql[Len(emailLogs'.sql)].leadId = call'.id
       /\ call'.op = "schedule_meeting" =>
            /\ Len(meetings'.sql) = Len(meetings.sql) + 1
            /\ SubSeq(meetings'.sql, 1, Len(meetings.sql)) = meetings.sql
            /\ meetings'.sql[Len(meetings'.sql)] = NewMeeting(idCounter.others + 1, call'.args)]_vars

C27_Witness ==
  /\ Has(call, "threw") /\ call.threw /\ call.failAt = 3
  /\ call.op = "log_email"
  /\ Exists(leads.sql, call.id)
  /\ Len(emailLogs.sql) > 0
  /\ RowOf(leads.sql, call.id).lastContactedAt = NoTime


\* C25: when note-adding requests for one lead interleave at the handlers'
\* await points, the lead's notes still only grow: every note stored before a
\* step is stored after it, in the same place, while the lead exists.
C25_NotesGrowUnderInterleaving ==
  [][\A i \in 1..Len(leads.sql) :
       Exists(leads'.sql, leads.sql[i].id) =>
         IsPrefix(parseJSON(leads.sql[i].notes).items,
                  parseJSON(RowOf(leads'.sql, leads.sql[i].id).notes).items)]_vars

\* C26: whenever update_lead answers success: true, its lead field is the
\* stored lead and never null, also when a delete_lead for the same id ran
\* in between.
C26_UpdateLeadReturnsStoredLead ==
  (call.op = "update_lead" /\ result.sql.success) =>
    /\ DOMAIN result.sql.lead # {}
    /\ Exists(leads.sql, call.id)
    /\ result.sql.lead = DecodeLead(RowOf(leads.sql, call.id))


\* C28: seeding is all-or-nothing: when initDatabase starts on an empty
\* template store, the store afterwards holds all default templates or none,
\* whether or not one of the inserts raised an error.
C28_SeedingAllOrNothing ==
  [][call'.op = "initDatabase" =>
       \A b \in SqlBackends :
         templates[b] = <<>> => Len(templates'[b]) \in {0, Len(defaultTemplates)}]_vars


\* C29: update_meeting, update_follow_up and update_email_template called
\* for an existing entity with an updates bag holding none of the recognised
\* fields answer success (and, the bag being without effect, leave the
\* entity as it is).
C29_EmptyUpdateSucceeds ==
  /\ (/\ call.op = "update_meeting"
      /\ Exists(meetings.sql, call.id)
      /\ DOMAIN call.args
           \cap {"title", "description", "scheduledAt", "duration", "location",
                 "meetingLink", "status", "outcome"} = {}) =>
        result.sql.success
  /\ (/\ call.op = "update_follow_up"
      /\ Exists(followUps.sql, call.id)
      /\ DOMAIN call.args
           \cap {"type", "description", "scheduledAt", "completed", "completedAt"} = {}) =>
        result.sql.success
  /\ (/\ call.op = "update_email_template"
      /\ Exists(templates.sql, call.args.templateId)
      /\ DOMAIN call.args.updates
           \cap {"name", "subject", "body", "category", "variables"} = {}) =>
        result.sql.success

====
